---- MODULE Spec2Model ----
(***************************************************************************)
(* Model of the sliceable dictionary of palmb/slice-dict.                  *)
(*                                                                         *)
(* sliceable_dict/core.py : SliceDict, TypedSliceDict, _SimpleIndex        *)
(* sliceable_dict/lib.py  : is_hashable, is_dict_like, is_list_like,       *)
(*                          is_boolean_indexer                             *)
(* goodbadugly/base.py    : _BaseContainer, _Axis                         *)
(* goodbadugly/indexdict.py: BaseContainer                                 *)
(*                                                                         *)
(* A python object is a record [ty, id]: ty is the name of its class, id   *)
(* tells the objects of one class apart.  A dict is the sequence of its    *)
(* [k, v] items in insertion order.  An optional integer (a slice field)   *)
(* is the empty sequence for None and <<n>> for the integer n.             *)
(***************************************************************************)
EXTENDS Integers, Sequences, FiniteSets, TLC

\* ------------------------------------------------------------------------
\* Bounds of the model
\* ------------------------------------------------------------------------
\* largest number of items a container holds
MaxLen == 2
\* largest length of a list-like selector
MaxSel == 2
\* largest length of a list-like, mapping or iterator value
MaxVal == 2

\* ------------------------------------------------------------------------
\* Python objects
\* ------------------------------------------------------------------------
PyObj(ty, id) == [ty |-> ty, id |-> id]

StrA == PyObj("str", 1)
StrB == PyObj("str", 2)
BTrue == PyObj("bool", 1)
BFalse == PyObj("bool", 0)
IntTwo == PyObj("int", 2)
PyNone == PyObj("NoneType", 0)
\* an object that cannot be hashed (a list used as an element)
AList == PyObj("list", 0)

\* keys the callers use, values the callers store
KeyObjs == {StrA, StrB, BTrue}
ValObjs == {IntTwo, StrA}
\* the elements of the list-like selectors
SelObjs == KeyObjs \cup {BFalse}

\* isinstance(obj, types) for a tuple of classes; bool is a subclass of int
IsInstance(obj, types) ==
    \E t \in types : obj.ty = t \/ (obj.ty = "bool" /\ t = "int")

\* bool(obj)
Truthy(obj) ==
    CASE obj.ty = "bool" -> obj.id = 1
      [] obj.ty = "int" -> obj.id # 0
      [] obj.ty = "NoneType" -> FALSE
      [] obj.ty = "list" -> FALSE
      [] OTHER -> TRUE

\* ------------------------------------------------------------------------
\* Sequences
\* ------------------------------------------------------------------------
RECURSIVE SeqsUpTo(_, _)
SeqsUpTo(S, n) ==
    IF n = 0 THEN {<<>>}
    ELSE LET shorter == SeqsUpTo(S, n - 1)
         IN shorter \cup {Append(s, x) : s \in shorter, x \in S}

Contains(s, x) == \E i \in 1..Len(s) : s[i] = x

RECURSIVE SelectIdx(_, _, _)
\* the elements s[i], in order, whose position i satisfies Keep
SelectIdx(s, Keep(_), i) ==
    IF i > Len(s) THEN <<>>
    ELSE (IF Keep(i) THEN <<s[i]>> ELSE <<>>) \o SelectIdx(s, Keep, i + 1)

\* the element of a set of one element: Only({F(x) : x \in {e}}) is F(e)
\* with e computed once
Only(S) == CHOOSE x \in S : TRUE

Min(a, b) == IF a < b THEN a ELSE b
Max(a, b) == IF a > b THEN a ELSE b

\* ------------------------------------------------------------------------
\* dict: the sequence of its [k, v] items in insertion order
\* ------------------------------------------------------------------------
Item(k, v) == [k |-> k, v |-> v]

dict_keys(d) == [i \in 1..Len(d) |-> d[i].k]
dict_values(d) == [i \in 1..Len(d) |-> d[i].v]
dict_contains(d, k) == \E i \in 1..Len(d) : d[i].k = k
dict_get(d, k) == d[CHOOSE i \in 1..Len(d) : d[i].k = k].v

\* d[k] = v that moves an existing key to the end
dict_set_move_to_end(d, k, v) ==
    Only({LET Keep(i) == dd[i].k # k
          IN Append(SelectIdx(dd, Keep, 1), Item(k, v)) : dd \in {d}})

\* d[k] = v : an existing key keeps its position, a new one goes last
dict_set(d, k, v) ==
    Only({IF dict_contains(dd, k)
          THEN [i \in 1..Len(dd) |->
                   IF dd[i].k = k THEN Item(dd[i].k, v) ELSE dd[i]]
          ELSE Append(dd, Item(k, v)) : dd \in {d}})

\* del d[k] that takes the items after the key away with it
dict_del_truncate(d, k) ==
    LET Keep(i) == \A j \in 1..i : d[j].k # k IN SelectIdx(d, Keep, 1)

\* del d[k]
dict_del(d, k) ==
    LET Keep(i) == d[i].k # k IN SelectIdx(d, Keep, 1)

\* ------------------------------------------------------------------------
\* sliceable_dict/lib.py
\* ------------------------------------------------------------------------
is_hashable(obj) == obj.ty # "list"

\* func(obj) for a function of lib that is passed by name
call(func, obj) == func = "is_hashable" /\ is_hashable(obj)

\* all(func(x) for x in iterable)
check_all(iterable, func) ==
    \A i \in 1..Len(iterable) : call(func, iterable[i])

\* only the dtype is looked at
is_boolean_indexer_dtype(items, dtype) == dtype = "bool"

\* an indexer test that takes a list without elements for a list of keys
is_boolean_indexer_nonempty(items, dtype) ==
    \/ dtype = "bool"
    \/ /\ Len(items) > 0
       /\ \A i \in 1..Len(items) : items[i].ty = "bool"

\* obj has a dtype that equals bool, or its first element that is not a
\* bool does not exist
is_boolean_indexer(items, dtype) ==
    \/ dtype = "bool"
    \/ \A i \in 1..Len(items) : items[i].ty = "bool"

\* ------------------------------------------------------------------------
\* _SimpleIndex
\* ------------------------------------------------------------------------
\* _SimpleIndex(initlist): the list, or a ValueError when an item is not
\* hashable
SimpleIndex_init(initlist) ==
    IF check_all(initlist, "is_hashable")
    THEN [err |-> "", data |-> initlist]
    ELSE [err |-> "ValueError", data |-> <<>>]

RECURSIVE fromkeys(_, _)
\* dict.fromkeys(s): the first occurrence of every element, in order
fromkeys(s, seen) ==
    IF s = <<>> THEN <<>>
    ELSE Only({IF h \in seen THEN fromkeys(Tail(s), seen)
               ELSE <<h>> \o fromkeys(Tail(s), seen \cup {h}) :
               h \in {Head(s)}})

SimpleIndex_unique(self) == fromkeys(self, {})

\* a difference through set(), which does not keep the order: here reversed
SimpleIndex_difference_set(self, other) ==
    Only({[i \in 1..Len(kept) |-> kept[Len(kept) + 1 - i]] :
          kept \in {Only({LET Keep(i) == ~Contains(other, u[i])
                          IN SelectIdx(u, Keep, 1) :
                          u \in {SimpleIndex_unique(self)}})}})

SimpleIndex_difference(self, other) ==
    Only({LET Keep(i) == ~Contains(other, u[i]) IN SelectIdx(u, Keep, 1) :
          u \in {SimpleIndex_unique(self)}})

SimpleIndex_empty(self) == Len(self) = 0

\* list.__getitem__(slice): the indices of slice.indices(len), then the
\* elements at start, start + step, ...
slice_step(sl) == IF sl.step = <<>> THEN 1 ELSE sl.step[1]

slice_start(sl, n) ==
    LET step == slice_step(sl)
        lower == IF step < 0 THEN -1 ELSE 0
        upper == IF step < 0 THEN n - 1 ELSE n
    IN IF sl.start = <<>> THEN (IF step < 0 THEN upper ELSE lower)
       ELSE IF sl.start[1] < 0 THEN Max(sl.start[1] + n, lower)
       ELSE Min(sl.start[1], upper)

\* a stop that is included in the slice
slice_stop_inclusive(sl, n) ==
    LET step == slice_step(sl)
        lower == IF step < 0 THEN -1 ELSE 0
        upper == IF step < 0 THEN n - 1 ELSE n
    IN IF sl.stop = <<>> THEN (IF step < 0 THEN lower ELSE upper)
       ELSE IF sl.stop[1] < 0 THEN Max(sl.stop[1] + n + 1, lower)
       ELSE Min(sl.stop[1] + 1, upper)

slice_stop(sl, n) ==
    LET step == slice_step(sl)
        lower == IF step < 0 THEN -1 ELSE 0
        upper == IF step < 0 THEN n - 1 ELSE n
    IN IF sl.stop = <<>> THEN (IF step < 0 THEN lower ELSE upper)
       ELSE IF sl.stop[1] < 0 THEN Max(sl.stop[1] + n, lower)
       ELSE Min(sl.stop[1], upper)

slice_length(sl, n) ==
    LET step == slice_step(sl)
        start == slice_start(sl, n)
        stop == slice_stop(sl, n)
    IN IF step > 0
       THEN (IF start < stop THEN ((stop - start - 1) \div step) + 1 ELSE 0)
       ELSE (IF stop < start THEN ((start - stop - 1) \div (-step)) + 1 ELSE 0)

list_getslice(s, sl) ==
    IF slice_step(sl) = 0
    THEN [err |-> "ValueError", data |-> <<>>]
    ELSE [err |-> "",
          data |-> [j \in 1..slice_length(sl, Len(s)) |->
                       s[slice_start(sl, Len(s)) + (j - 1) * slice_step(sl) + 1]]]

\* ------------------------------------------------------------------------
\* Arguments of the calls
\* ------------------------------------------------------------------------
\* A selector is a hashable key ("key"), a list-like ("list", with the dtype
\* it declares), a slice ("slice") or an object that is neither hashable
\* nor list-like ("other").  A slice is not hashable, as in the Python
\* versions before 3.12 that the tests of the repository run on.
Selector(kind, key, items, dtype, start, stop, step) ==
    [kind |-> kind, key |-> key, items |-> items, dtype |-> dtype,
     start |-> start, stop |-> stop, step |-> step]

KeySel(k) == Selector("key", k, <<>>, "", <<>>, <<>>, <<>>)
ListSel(items, dtype) == Selector("list", PyNone, items, dtype, <<>>, <<>>, <<>>)
SliceSel(start, stop, step) == Selector("slice", PyNone, <<>>, "", start, stop, step)
OtherSel == Selector("other", PyNone, <<>>, "", <<>>, <<>>, <<>>)

\* A value is a single object that is not a collection ("obj"), a list
\* ("list"), a dict ("dict", its items) or a one-shot iterator ("iter").
Value(kind, obj, items, pairs) ==
    [kind |-> kind, obj |-> obj, items |-> items, pairs |-> pairs]

ObjVal(o) == Value("obj", o, <<>>, <<>>)
ListVal(items) == Value("list", PyNone, items, <<>>)
DictVal(pairs) == Value("dict", PyNone, <<>>, pairs)
IterVal(items) == Value("iter", PyNone, items, <<>>)

\* the object that a value is when it is stored under one key
value_object(value) ==
    IF value.kind = "obj" THEN value.obj ELSE PyObj(value.kind, 0)

is_dict_like(value) == value.kind = "dict"
is_list_like(value) == value.kind \in {"list", "dict", "iter"}
\* len(value) raises a TypeError for an iterator, which is passed on as it is
has_len(value) == value.kind # "iter"

\* ------------------------------------------------------------------------
\* The container: its class, the class attributes _key_types and
\* _value_types, and the dict self.data
\* ------------------------------------------------------------------------
\* _key_types / _value_types: a tuple of classes (is_type = FALSE) or one
\* class given in place of the tuple (is_type = TRUE)
Types(is_type, ts) == [is_type |-> is_type, ts |-> ts]
NoTypes == Types(FALSE, {})

Class(klass, key_types, value_types) ==
    [klass |-> klass, key_types |-> key_types, value_types |-> value_types]

\* the outcome of a call: the exception class ("" when none is raised),
\* the place that raised it, and what the call computed
Outcome(err, at, data) ==
    [err |-> err, at |-> at, data |-> data, lens |-> <<>>, missing |-> <<>>,
     expanded |-> <<>>, norm |-> <<>>, ret |-> <<>>, retval |-> PyNone,
     retkind |-> "", index |-> <<>>, retobj |-> ""]

\* a test that lets a mask longer than the keys pass
wrong_length_shorter(key, keys) == Len(key) < Len(keys)

\* len(key) != len(self.keys()) of a boolean indexer
wrong_length(key, keys) == Len(key) # Len(keys)

\* SliceDict._expand_key
SliceDict_expand_key(data, key) ==
    IF key.kind = "slice"
    THEN Only({IF r.err # ""
               THEN Outcome(r.err, "expand", data)
               ELSE [Outcome("", "", data) EXCEPT !.expanded = r.data] :
               r \in {list_getslice(SimpleIndex_init(dict_keys(data)).data,
                                    key)}})
    ELSE IF key.kind = "list"
    THEN Only({IF idx.err # ""
               THEN Outcome("TypeError", "expand", data)
               ELSE IF is_boolean_indexer(idx.data, key.dtype)
               THEN IF wrong_length(idx.data, dict_keys(data))
                    THEN [Outcome("ValueError", "expand", data)
                            EXCEPT !.lens = <<Len(idx.data),
                                              Len(dict_keys(data))>>]
                    ELSE LET Keep(i) == Truthy(idx.data[i])
                         IN [Outcome("", "", data)
                               EXCEPT !.expanded =
                                          SelectIdx(dict_keys(data), Keep, 1)]
               ELSE [Outcome("", "", data) EXCEPT !.expanded = idx.data] :
               idx \in {SimpleIndex_init(key.items)}})
    ELSE Outcome("TypeError", "expand", data)

\* TypedSliceDict._validate_type with errors="raise": TRUE when accepted
TypedSliceDict_validate_type(obj, types) ==
    IF types.is_type
    THEN IsInstance(obj, {"type"})
    ELSE IsInstance(obj, types.ts)

\* bool(self._key_types): a class is true, a tuple is true when not empty
types_given(types) == types.is_type \/ types.ts # {}

\* a write that takes the key out before it stores it: the key goes last
SliceDict_setitem_single_reinsert(data, key, value) ==
    Outcome("", "", Append(dict_del(data, key), Item(key, value)))

\* SliceDict.__setitem_single__ : UserDict.__setitem__
SliceDict_setitem_single(data, key, value) ==
    Outcome("", "", dict_set(data, key, value))

\* __setitem_single__ that validates the key and forgets the value
TypedSliceDict_setitem_single_key_only(cls, data, key, value) ==
    IF types_given(cls.key_types)
       /\ ~TypedSliceDict_validate_type(key, cls.key_types)
    THEN Outcome("TypeError", "key", data)
    ELSE SliceDict_setitem_single(data, key, value)

\* TypedSliceDict.__setitem_single__
TypedSliceDict_setitem_single(cls, data, key, value) ==
    IF types_given(cls.key_types)
       /\ ~TypedSliceDict_validate_type(key, cls.key_types)
    THEN Outcome("TypeError", "key", data)
    ELSE IF types_given(cls.value_types)
            /\ ~TypedSliceDict_validate_type(value, cls.value_types)
    THEN Outcome("TypeError", "value", data)
    ELSE SliceDict_setitem_single(data, key, value)

\* self.__setitem_single__ as the class of self resolves it
setitem_single(cls, data, key, value) ==
    IF cls.klass = "TypedSliceDict"
    THEN TypedSliceDict_setitem_single(cls, data, key, value)
    ELSE SliceDict_setitem_single(data, key, value)

\* a loop that stops after the first pair
setitem_loop_first_pair(cls, data, key, value, i) ==
    IF i > Min(1, Min(Len(key), Len(value))) THEN Outcome("", "", data)
    ELSE Only({IF r.err # "" THEN Outcome(r.err, "apply", data) ELSE r :
               r \in {setitem_single(cls, data, key[i], value[i])}})

RECURSIVE setitem_loop(_, _, _, _, _)
\* for k, v in zip(key, value): self.__setitem_single__(k, v)
\* the dict as the loop leaves it: complete, or as it was when a pair raised
setitem_loop(cls, data, key, value, i) ==
    IF i > Min(Len(key), Len(value)) THEN Outcome("", "", data)
    ELSE Only({IF r.err # "" THEN Outcome(r.err, "apply", data)
               ELSE setitem_loop(cls, r.data, key, value, i + 1) :
               r \in {setitem_single(cls, data, key[i], value[i])}})

\* the finally clause without the copy: the dict stays as the loop left it
setitem_finally_keep(copy, loop) == loop.data

\* try: ...; data = self.data  finally: self.data = data
\* data is the shallow copy taken before the loop
setitem_finally(copy, loop) ==
    IF loop.err # "" THEN copy ELSE loop.data

\* a single object repeated for every key
setitem_value_repeat(key, value) ==
    IF is_dict_like(value)
    THEN [err |-> "",
          seq |-> [i \in 1..Len(value.pairs) |->
                      dict_get(value.pairs, dict_keys(value.pairs)[i])]]
    ELSE IF is_list_like(value)
    THEN [err |-> "", seq |-> value.items]
    ELSE [err |-> "", seq |-> [i \in 1..Len(key) |-> value.obj]]

\* a mapping that is looked up by the expanded keys in place of its own
setitem_value_reindex(key, value) ==
    IF is_dict_like(value)
    THEN IF \A i \in 1..Len(key) : dict_contains(value.pairs, key[i])
         THEN [err |-> "",
               seq |-> [i \in 1..Len(key) |-> dict_get(value.pairs, key[i])]]
         ELSE [err |-> "KeyError", seq |-> <<>>]
    ELSE IF is_list_like(value)
    THEN [err |-> "", seq |-> value.items]
    ELSE IF Len(key) = 1
    THEN [err |-> "", seq |-> <<value.obj>>]
    ELSE [err |-> "TypeError", seq |-> <<>>]

\* the value sequence of SliceDict.__setitem__, lines 87-98
setitem_value(key, value) ==
    IF is_dict_like(value)
    THEN [err |-> "",
          seq |-> [i \in 1..Len(value.pairs) |->
                      dict_get(value.pairs, dict_keys(value.pairs)[i])]]
    ELSE IF is_list_like(value)
    THEN [err |-> "", seq |-> value.items]
    ELSE IF Len(key) = 1
    THEN [err |-> "", seq |-> <<value.obj>>]
    ELSE [err |-> "TypeError", seq |-> <<>>]

\* SliceDict.__setitem__
SliceDict_setitem(cls, data, key, value) ==
    IF key.kind = "key"
    THEN setitem_single(cls, data, key.key, value_object(value))
    ELSE Only({
        IF e.err # "" THEN e
        ELSE Only({
            IF v.err # ""
            THEN [Outcome(v.err, "value", data) EXCEPT !.expanded = e.expanded]
            ELSE IF ~has_len(value)
            THEN [Outcome("TypeError", "len", data)
                    EXCEPT !.expanded = e.expanded]
            ELSE IF Len(e.expanded) # Len(v.seq)
            THEN [Outcome("ValueError", "length", data)
                    EXCEPT !.expanded = e.expanded, !.norm = v.seq,
                           !.lens = <<Len(e.expanded), Len(v.seq)>>]
            ELSE Only({[loop EXCEPT !.data = setitem_finally(data, loop),
                                    !.expanded = e.expanded, !.norm = v.seq] :
                       loop \in {setitem_loop(cls, data, e.expanded, v.seq, 1)}}) :
            v \in {setitem_value(e.expanded, value)}}) :
        e \in {SliceDict_expand_key(data, key)}})

\* UserDict.__getitem__ of a hashable key
UserDict_getitem(data, key) ==
    IF dict_contains(data, key)
    THEN [Outcome("", "", data) EXCEPT !.retval = dict_get(data, key),
                                       !.retkind = "value"]
    ELSE Outcome("KeyError", "key", data)

\* the comprehension run over the keys of the dict in place of the selector
dict_comprehension_dict_order(data, key, acc) ==
    LET Keep(i) == Contains(key, data[i].k) IN SelectIdx(data, Keep, 1)

RECURSIVE dict_comprehension(_, _, _)
\* {k: data[k] for k in key}
dict_comprehension(data, key, acc) ==
    IF key = <<>> THEN acc
    ELSE Only({dict_comprehension(data, Tail(key), next) :
               next \in {dict_set(acc, Head(key), dict_get(data, Head(key)))}})

RECURSIVE update_loop(_, _, _, _)
\* MutableMapping.update(other): for key in other: self[key] = other[key]
\* the dict as the loop leaves it, complete or not
update_loop(cls, data, other, i) ==
    IF i > Len(other) THEN Outcome("", "", data)
    ELSE Only({IF r.err # "" THEN Outcome(r.err, "apply", data)
               ELSE update_loop(cls, r.data, other, i + 1) :
               r \in {SliceDict_setitem(cls, data, KeySel(other[i].k),
                                        ObjVal(other[i].v))}})

\* UserDict.__init__(dict): self.data = {}; self.update(dict)
SliceDict_init(cls, other) == update_loop(cls, <<>>, other, 1)

\* a compound read that returns self when the selector names all the keys
\* in their order
SliceDict_getitem_self(cls, data, key) ==
    IF key.kind = "key" THEN UserDict_getitem(data, key.key)
    ELSE Only({
        IF e.err # "" THEN e
        ELSE Only({
            IF ~SimpleIndex_empty(missing)
            THEN [Outcome("KeyError", "missing", data)
                    EXCEPT !.expanded = e.expanded, !.missing = missing]
            ELSE Only({[Outcome(new.err, new.at, data)
                          EXCEPT !.expanded = e.expanded, !.ret = new.data,
                                 !.retkind = IF new.err = "" THEN "container"
                                             ELSE "",
                                 !.retobj =
                                     IF new.err # "" THEN ""
                                     ELSE IF e.expanded = dict_keys(data)
                                     THEN "self" ELSE "new"] :
                       new \in {SliceDict_init(cls,
                                   dict_comprehension(data, e.expanded, <<>>))}}) :
            missing \in {SimpleIndex_difference(e.expanded, dict_keys(data))}}) :
        e \in {SliceDict_expand_key(data, key)}})

\* SliceDict.__getitem__ : a compound read returns self.__class__(dict), a
\* new container whose data is a dict of its own (retobj = "new"), filled
\* pair by pair from the comprehension
SliceDict_getitem(cls, data, key) ==
    IF key.kind = "key" THEN UserDict_getitem(data, key.key)
    ELSE Only({
        IF e.err # "" THEN e
        ELSE Only({
            IF ~SimpleIndex_empty(missing)
            THEN [Outcome("KeyError", "missing", data)
                    EXCEPT !.expanded = e.expanded, !.missing = missing]
            ELSE Only({[Outcome(new.err, new.at, data)
                          EXCEPT !.expanded = e.expanded, !.ret = new.data,
                                 !.retkind = IF new.err = "" THEN "container"
                                             ELSE "",
                                 !.retobj = IF new.err = "" THEN "new"
                                            ELSE ""] :
                       new \in {SliceDict_init(cls,
                                   dict_comprehension(data, e.expanded, <<>>))}}) :
            missing \in {SimpleIndex_difference(e.expanded, dict_keys(data))}}) :
        e \in {SliceDict_expand_key(data, key)}})

\* UserDict.__delitem__
SliceDict_delitem(data, key) ==
    IF dict_contains(data, key)
    THEN Outcome("", "", dict_del(data, key))
    ELSE Outcome("KeyError", "key", data)

\* MutableMapping.update
SliceDict_update(cls, data, other) == update_loop(cls, data, other, 1)

\* SliceDict.__ior__
SliceDict_ior(cls, data, other) ==
    Only({[loop EXCEPT !.data = IF loop.err # "" THEN data ELSE loop.data] :
          loop \in {update_loop(cls, data, other, 1)}})

\* MutableMapping.setdefault
SliceDict_setdefault(cls, data, key, default) ==
    Only({IF got.err = "KeyError"
          THEN Only({IF r.err # "" THEN r
                     ELSE [r EXCEPT !.retval = default, !.retkind = "value"] :
                     r \in {SliceDict_setitem(cls, data, KeySel(key),
                                              ObjVal(default))}})
          ELSE got :
          got \in {SliceDict_getitem(cls, data, KeySel(key))}})

\* ------------------------------------------------------------------------
\* goodbadugly/base.py : _BaseContainer (a UserDict) with an _Axis
\* descriptor, as the classes IndexContainer and ColumnContainer have it.
\* The operators of _BaseContainer are named AxisContainer_...
\* The class is Class("IndexContainer", key_types, NoTypes): key_types is
\* empty for the callback of _BaseContainer, which accepts every pair; a
\* subclass that restricts its keys overrides the callback and raises a
\* TypeError for a key that is no instance of key_types.
\* ------------------------------------------------------------------------
\* pd.Index(values): the labels in the order of the values
pd_Index(values) == [i \in 1..Len(values) |-> values[i]]

\* pd.Index.is_unique
Index_is_unique(idx) == \A i, j \in 1..Len(idx) : idx[i] = idx[j] => i = j

\* pandas is_bool_indexer of a list: it has items and all of them are bools
is_bool_indexer(key) ==
    /\ key.kind = "list"
    /\ Len(key.items) > 0
    /\ \A i \in 1..Len(key.items) : key.items[i].ty = "bool"

\* self._set_single_item_callback(key, value): the pair, or the error of a
\* subclass that restricts the keys
set_single_item_callback(cls, key, value) ==
    IF types_given(cls.key_types) /\ ~IsInstance(key, cls.key_types.ts)
    THEN [err |-> "TypeError", k |-> key, v |-> value]
    ELSE [err |-> "", k |-> key, v |-> value]

\* super().__setitem__(*_cb(key, value))
AxisContainer_setitem_single(cls, data, key, value) ==
    Only({IF cb.err # "" THEN Outcome(cb.err, "key", data)
          ELSE Outcome("", "", dict_set(data, cb.k, cb.v)) :
          cb \in {set_single_item_callback(cls, key, value)}})

\* _BaseContainer._expand_key
AxisContainer_expand_key(data, key) ==
    IF key.kind = "slice"
    THEN Only({IF r.err # "" THEN Outcome(r.err, "expand", data)
               ELSE [Outcome("", "", data) EXCEPT !.expanded = pd_Index(r.data)] :
               r \in {list_getslice(pd_Index(dict_keys(data)), key)}})
    ELSE IF is_bool_indexer(key)
    THEN IF Len(key.items) # Len(dict_keys(data))
         THEN [Outcome("ValueError", "expand", data)
                 EXCEPT !.lens = <<Len(key.items), Len(dict_keys(data))>>]
         ELSE LET Keep(i) == Truthy(key.items[i])
              IN [Outcome("", "", data)
                    EXCEPT !.expanded =
                               pd_Index(SelectIdx(dict_keys(data), Keep, 1))]
    ELSE IF key.kind = "list"
    THEN [Outcome("", "", data) EXCEPT !.expanded = pd_Index(key.items)]
    ELSE Outcome("TypeError", "expand", data)

\* the value sequence of _BaseContainer.__setitem__, lines 118-128
AxisContainer_setitem_value(key, value) ==
    IF is_dict_like(value)
    THEN [err |-> "",
          seq |-> [i \in 1..Len(value.pairs) |->
                      dict_get(value.pairs, dict_keys(value.pairs)[i])]]
    ELSE IF value.kind = "iter"
    THEN [err |-> "", seq |-> value.items]
    ELSE IF is_list_like(value)
    THEN [err |-> "", seq |-> value.items]
    ELSE IF Len(key) = 1
    THEN [err |-> "", seq |-> <<value.obj>>]
    ELSE [err |-> "TypeError", seq |-> <<>>]

RECURSIVE AxisContainer_setitem_loop(_, _, _, _, _)
\* for k, val in zip(key, value): ... super().__setitem__(*_cb(k, val))
\* a pair that raises ends the loop; the pairs before it stay stored
AxisContainer_setitem_loop(cls, data, key, value, i) ==
    IF i > Min(Len(key), Len(value)) THEN Outcome("", "", data)
    ELSE IF ~is_hashable(key[i]) THEN Outcome("KeyError", "apply", data)
    ELSE Only({IF r.err # "" THEN Outcome(r.err, "apply", data)
               ELSE AxisContainer_setitem_loop(cls, r.data, key, value, i + 1) :
               r \in {AxisContainer_setitem_single(cls, data, key[i], value[i])}})

\* _BaseContainer.__setitem__
AxisContainer_setitem(cls, data, key, value) ==
    IF key.kind = "key"
    THEN AxisContainer_setitem_single(cls, data, key.key, value_object(value))
    ELSE Only({
        IF e.err # "" THEN e
        ELSE Only({
            IF v.err # ""
            THEN [Outcome(v.err, "value", data) EXCEPT !.expanded = e.expanded]
            ELSE IF Len(e.expanded) # Len(v.seq)
            THEN [Outcome("ValueError", "length", data)
                    EXCEPT !.expanded = e.expanded, !.norm = v.seq,
                           !.lens = <<Len(e.expanded), Len(v.seq)>>]
            ELSE [AxisContainer_setitem_loop(cls, data, e.expanded, v.seq, 1)
                    EXCEPT !.expanded = e.expanded, !.norm = v.seq] :
            v \in {AxisContainer_setitem_value(e.expanded, value)}}) :
        e \in {AxisContainer_expand_key(data, key)}})

\* UserDict.__delitem__
AxisContainer_delitem(data, key) ==
    IF dict_contains(data, key)
    THEN Outcome("", "", dict_del(data, key))
    ELSE Outcome("KeyError", "key", data)

\* MutableMapping.setdefault: self[key], and self[key] = default when the
\* read raises a KeyError
AxisContainer_setdefault(cls, data, key, default) ==
    IF dict_contains(data, key)
    THEN [Outcome("", "", data) EXCEPT !.retval = dict_get(data, key),
                                       !.retkind = "value"]
    ELSE Only({IF r.err # "" THEN r
               ELSE [r EXCEPT !.retval = default, !.retkind = "value"] :
               r \in {AxisContainer_setitem(cls, data, KeySel(key),
                                            ObjVal(default))}})

\* MutableMapping.pop(key[, default]): default is <<>> when it is not given
AxisContainer_pop(data, key, default) ==
    IF dict_contains(data, key)
    THEN [AxisContainer_delitem(data, key)
            EXCEPT !.retval = dict_get(data, key), !.retkind = "value"]
    ELSE IF default = <<>> THEN Outcome("KeyError", "key", data)
    ELSE [Outcome("", "", data) EXCEPT !.retval = default[1],
                                       !.retkind = "value"]

\* MutableMapping.popitem: key = next(iter(self)); del self[key]
AxisContainer_popitem(data) ==
    IF Len(data) = 0 THEN Outcome("KeyError", "key", data)
    ELSE [AxisContainer_delitem(data, data[1].k)
            EXCEPT !.retval = data[1].v, !.retkind = "value"]

RECURSIVE AxisContainer_clear(_)
\* MutableMapping.clear: popitem() until it raises a KeyError
AxisContainer_clear(data) ==
    Only({IF r.err = "KeyError" THEN Outcome("", "", r.data)
          ELSE AxisContainer_clear(r.data) :
          r \in {AxisContainer_popitem(data)}})

RECURSIVE AxisContainer_update(_, _, _, _)
\* MutableMapping.update(other): for key in other: self[key] = other[key]
\* the dict as the loop leaves it, complete or not
AxisContainer_update(cls, data, other, i) ==
    IF i > Len(other) THEN Outcome("", "", data)
    ELSE Only({IF r.err # "" THEN Outcome(r.err, "apply", data)
               ELSE AxisContainer_update(cls, r.data, other, i + 1) :
               r \in {AxisContainer_setitem(cls, data, KeySel(other[i].k),
                                            ObjVal(other[i].v))}})

RECURSIVE dict_update(_, _, _)
\* dict.update(other), d |= other
dict_update(d, other, i) ==
    IF i > Len(other) THEN d
    ELSE Only({dict_update(next, other, i + 1) :
               next \in {dict_set(d, other[i].k, other[i].v)}})

\* UserDict.__ior__: self.data |= other
AxisContainer_ior(data, other) == Outcome("", "", dict_update(data, other, 1))

RECURSIVE dict_zip(_, _, _)
\* dict(zip(keys, values))
dict_zip(keys, values, i) ==
    IF i > Min(Len(keys), Len(values)) THEN <<>>
    ELSE Only({dict_update(<<Item(keys[i], values[i])>>, rest, 1) :
               rest \in {dict_zip(keys, values, i + 1)}})

\* the labels of the view in the reverse of the key order
Axis_get_reversed(data) ==
    [i \in 1..Len(data) |-> dict_keys(data)[Len(data) + 1 - i]]

\* _Axis.__get__ of an instance: pd.Index(instance.keys())
Axis_get(data) == pd_Index(dict_keys(data))

\* a rename that leaves the container as the failed update left it
Axis_set_no_restore(cls, data, value) ==
    Only({IF ~Index_is_unique(v) THEN Outcome("ValueError", "unique", data)
          ELSE IF Len(dict_keys(data)) # Len(v)
          THEN [Outcome("ValueError", "length", data)
                  EXCEPT !.lens = <<Len(dict_keys(data)), Len(v)>>]
          ELSE AxisContainer_update(cls, <<>>,
                                    dict_zip(v, dict_values(data), 1), 1) :
          v \in {pd_Index(value)}})

\* _Axis.__set__
Axis_set(cls, data, value) ==
    Only({IF ~Index_is_unique(v) THEN Outcome("ValueError", "unique", data)
          ELSE IF Len(dict_keys(data)) # Len(v)
          THEN [Outcome("ValueError", "length", data)
                  EXCEPT !.lens = <<Len(dict_keys(data)), Len(v)>>]
          ELSE Only({[loop EXCEPT !.data = IF loop.err # "" THEN data
                                           ELSE loop.data] :
                     loop \in {AxisContainer_update(
                                   cls, <<>>,
                                   dict_zip(v, dict_values(data), 1), 1)}}) :
          v \in {pd_Index(value)}})

\* ------------------------------------------------------------------------
\* goodbadugly/indexdict.py : BaseContainer, a dict that keeps the index
\* of its keys in self._index.  The outcome of a call holds the _index
\* that the call leaves.
\* ------------------------------------------------------------------------
\* BaseContainer.__update_index: self._index = pd.Index(self.keys())
BaseContainer_update_index(data) == pd_Index(dict_keys(data))

\* BaseContainer.__init__
BaseContainer_init(other) ==
    Only({[Outcome("", "", d) EXCEPT !.index = BaseContainer_update_index(d)] :
          d \in {dict_update(<<>>, other, 1)}})

\* BaseContainer._slice_to_index: self._index[sl]
BaseContainer_slice_to_index(idx, sl) == list_getslice(idx, sl)

\* BaseContainer._expand_key: a slice becomes the labels it takes of
\* self._index, which then go through the test of a boolean indexer as a
\* list does
BaseContainer_expand_key(data, idx, key) ==
    Only({
        IF sliced.err # "" THEN Outcome(sliced.err, "expand", data)
        ELSE Only({
            IF is_bool_indexer(k)
            THEN IF Len(k.items) # Len(dict_keys(data))
                 THEN [Outcome("ValueError", "expand", data)
                         EXCEPT !.lens = <<Len(k.items), Len(dict_keys(data))>>]
                 ELSE LET Keep(i) == Truthy(k.items[i])
                      IN [Outcome("", "", data)
                            EXCEPT !.expanded =
                                pd_Index(SelectIdx(dict_keys(data), Keep, 1))]
            ELSE IF k.kind # "list" THEN Outcome("TypeError", "expand", data)
            ELSE [Outcome("", "", data) EXCEPT !.expanded = pd_Index(k.items)] :
            k \in {IF key.kind = "slice" THEN ListSel(sliced.data, "")
                   ELSE key}}) :
        sliced \in {IF key.kind = "slice"
                    THEN BaseContainer_slice_to_index(idx, key)
                    ELSE [err |-> "", data |-> <<>>]}})

\* the value sequence of BaseContainer.__setitem__, lines 59-68; a mapping
\* is list-like and stays as it is
BaseContainer_setitem_value(key, value) ==
    IF value.kind = "iter" THEN [err |-> "", seq |-> value.items]
    ELSE IF is_list_like(value)
    THEN [err |-> "",
          seq |-> IF is_dict_like(value) THEN dict_keys(value.pairs)
                  ELSE value.items]
    ELSE IF Len(key) = 1
    THEN [err |-> "", seq |-> <<value.obj>>]
    ELSE [err |-> "TypeError", seq |-> <<>>]

\* BaseContainer.__setitem__
BaseContainer_setitem(data, idx, key, value) ==
    IF key.kind = "key"
    THEN Only({[Outcome("", "", d) EXCEPT !.index = BaseContainer_update_index(d)] :
               d \in {dict_set(data, key.key, value_object(value))}})
    ELSE Only({
        IF e.err # "" THEN [e EXCEPT !.index = idx]
        ELSE Only({
            IF v.err # ""
            THEN [Outcome(v.err, "value", data)
                    EXCEPT !.expanded = e.expanded, !.index = idx]
            ELSE IF Len(e.expanded) # Len(v.seq)
            THEN [Outcome("ValueError", "length", data)
                    EXCEPT !.expanded = e.expanded, !.norm = v.seq,
                           !.lens = <<Len(e.expanded), Len(v.seq)>>,
                           !.index = idx]
            \* value[i] of a mapping looks up the integer i, which is no key
            \* of the mappings that are written here
            ELSE IF is_dict_like(value) /\ Len(e.expanded) > 0
            THEN [Outcome("KeyError", "apply", data)
                    EXCEPT !.expanded = e.expanded, !.index = idx]
            ELSE Only({[Outcome("", "", d)
                          EXCEPT !.expanded = e.expanded, !.norm = v.seq,
                                 !.index = BaseContainer_update_index(d)] :
                       d \in {dict_update(data,
                                  [i \in 1..Len(v.seq) |->
                                      Item(e.expanded[i], v.seq[i])], 1)}}) :
            v \in {BaseContainer_setitem_value(e.expanded, value)}}) :
        e \in {BaseContainer_expand_key(data, idx, key)}})

\* BaseContainer.__delitem__
BaseContainer_delitem(data, idx, key) ==
    IF dict_contains(data, key)
    THEN Only({[Outcome("", "", d) EXCEPT !.index = BaseContainer_update_index(d)] :
               d \in {dict_del(data, key)}})
    ELSE [Outcome("KeyError", "key", data) EXCEPT !.index = idx]

\* the methods that BaseContainer inherits of dict: they do not go through
\* __setitem__ or __delitem__ and leave self._index as it is
dict_setdefault(data, idx, key, default) ==
    IF dict_contains(data, key)
    THEN [Outcome("", "", data) EXCEPT !.retval = dict_get(data, key),
                                       !.retkind = "value", !.index = idx]
    ELSE [Outcome("", "", dict_set(data, key, default))
            EXCEPT !.retval = default, !.retkind = "value", !.index = idx]

\* dict.pop(key[, default]): default is <<>> when it is not given
dict_pop(data, idx, key, default) ==
    IF dict_contains(data, key)
    THEN [Outcome("", "", dict_del(data, key))
            EXCEPT !.retval = dict_get(data, key), !.retkind = "value",
                   !.index = idx]
    ELSE IF default = <<>>
    THEN [Outcome("KeyError", "key", data) EXCEPT !.index = idx]
    ELSE [Outcome("", "", data) EXCEPT !.retval = default[1],
                                       !.retkind = "value", !.index = idx]

\* dict.popitem: the last item
dict_popitem(data, idx) ==
    IF Len(data) = 0
    THEN [Outcome("KeyError", "key", data) EXCEPT !.index = idx]
    ELSE [Outcome("", "", SubSeq(data, 1, Len(data) - 1))
            EXCEPT !.retval = data[Len(data)].v, !.retkind = "value",
                   !.index = idx]

\* dict.clear
dict_clear(data, idx) == [Outcome("", "", <<>>) EXCEPT !.index = idx]

\* dict.update(other) and dict.__ior__(other)
dict_update_method(data, idx, other) ==
    [Outcome("", "", dict_update(data, other, 1)) EXCEPT !.index = idx]

\* BaseContainer.index, the setter
BaseContainer_index_set(data, idx, value) ==
    Only({IF Len(idx) # Len(v)
          THEN [Outcome("ValueError", "length", data)
                  EXCEPT !.lens = <<Len(idx), Len(v)>>, !.index = idx]
          ELSE Only({[Outcome("", "", d)
                        EXCEPT !.index = BaseContainer_update_index(d)] :
                     d \in {dict_update(<<>>,
                                dict_zip(v, dict_values(data), 1), 1)}}) :
          v \in {pd_Index(value)}})

\* ------------------------------------------------------------------------
\* _SimpleIndex: the set algebra with any iterable as the other operand.
\* The other operand is a value: a list or an index ("list", "index"), which
\* can be iterated again and again, or an iterator ("iter"), whose items
\* are gone once they have been read.  The dtype tag, which __finalize__
\* copies from self to the result, is no part of the elements and is left
\* out.
\* ------------------------------------------------------------------------
IndexVal(items) == Value("index", PyNone, items, <<>>)

\* the outcome of a method of an index: the elements of self after the
\* call (data), the elements of the index that is returned (ret), and the
\* other operand as the call leaves it
IndexOutcome(err, data, ret, other) ==
    [Outcome(err, "", data) EXCEPT !.ret = ret,
                                  !.retkind = IF err = "" THEN "index" ELSE "",
                                  !.retobj = IF err = "" THEN "new" ELSE "",
                                  !.norm = other.items]

\* k in other: a list is searched and stays as it is; an iterator is read
\* up to and including the first item that equals k, or to its end
value_contains(other, k) ==
    IF other.kind = "iter"
    THEN IF Contains(other.items, k)
         THEN Only({[found |-> TRUE,
                     other |-> IterVal(SubSeq(other.items, at + 1,
                                              Len(other.items)))] :
                    at \in {CHOOSE i \in 1..Len(other.items) :
                               /\ other.items[i] = k
                               /\ \A j \in 1..(i - 1) : other.items[j] # k}})
         ELSE [found |-> FALSE, other |-> IterVal(<<>>)]
    ELSE [found |-> Contains(other.items, k), other |-> other]

\* other after a loop has read all of it
value_exhaust(other) ==
    IF other.kind = "iter" THEN IterVal(<<>>) ELSE other

RECURSIVE index_filter(_, _, _, _)
\* (k for k in u if (k in other) == want) from u[i] on, and other as the
\* membership tests leave it
index_filter(u, other, want, i) ==
    IF i > Len(u) THEN [ret |-> <<>>, other |-> other]
    ELSE Only({Only({[ret |-> (IF c.found = want THEN <<u[i]>> ELSE <<>>)
                               \o r.ret,
                      other |-> r.other] :
                     r \in {index_filter(u, c.other, want, i + 1)}}) :
               c \in {value_contains(other, u[i])}})

\* _SimpleIndex.difference
SimpleIndex_difference_iterable(self, other) ==
    Only({IndexOutcome("", self, r.ret, r.other) :
          r \in {index_filter(SimpleIndex_unique(self), other, FALSE, 1)}})

\* _SimpleIndex.intersection
SimpleIndex_intersection(self, other) ==
    Only({IndexOutcome("", self, r.ret, r.other) :
          r \in {index_filter(SimpleIndex_unique(self), other, TRUE, 1)}})

RECURSIVE union_accumulated_loop(_, _, _)
union_accumulated_loop(acc, items, i) ==
    IF i > Len(items) THEN acc
    ELSE union_accumulated_loop(
             IF Contains(acc, items[i]) THEN acc ELSE Append(acc, items[i]),
             items, i + 1)

\* a union that tests the membership against what it has put together so
\* far: an element new to self is taken once
SimpleIndex_union_accumulated(self, other) ==
    Only({IF check_all(r, "is_hashable")
          THEN IndexOutcome("", self, r, value_exhaust(other))
          ELSE IndexOutcome("ValueError", self, <<>>, value_exhaust(other)) :
          r \in {union_accumulated_loop(self, other.items, 1)}})

\* _SimpleIndex.union: self + _SimpleIndex(k for k in other if k not in
\* self); other is read once, from its start to its end
SimpleIndex_union(self, other) ==
    Only({IF new.err # ""
          THEN IndexOutcome(new.err, self, <<>>, value_exhaust(other))
          ELSE IndexOutcome("", self, self \o new.data, value_exhaust(other)) :
          new \in {SimpleIndex_init(
                      LET Keep(i) == ~Contains(self, other.items[i])
                      IN SelectIdx(other.items, Keep, 1))}})

RECURSIVE symmetric_difference_loop(_, _, _, _)
\* (k for k in u if k not in self.intersection(other)) from u[i] on: the
\* intersection is computed anew for every k
symmetric_difference_loop(self, u, other, i) ==
    IF i > Len(u) THEN [ret |-> <<>>, other |-> other]
    ELSE Only({Only({[ret |-> (IF Contains(x.ret, u[i]) THEN <<>>
                               ELSE <<u[i]>>) \o r.ret,
                      other |-> r.other] :
                     r \in {symmetric_difference_loop(
                               self, u, Value(other.kind, PyNone, x.norm, <<>>),
                               i + 1)}}) :
               x \in {SimpleIndex_intersection(self, other)}})

\* _SimpleIndex.symmetric_difference
SimpleIndex_symmetric_difference(self, other) ==
    Only({IF un.err # "" THEN un
          ELSE Only({IndexOutcome("", self, r.ret, r.other) :
                     r \in {symmetric_difference_loop(
                               self, SimpleIndex_unique(un.ret),
                               Value(other.kind, PyNone, un.norm, <<>>), 1)}}) :
          un \in {SimpleIndex_union(self, other)}})

\* ------------------------------------------------------------------------
\* _SimpleIndex: the methods of a list.  append, insert, extend, clear,
\* __setitem__ and __delitem__ are overridden; the other methods of
\* UserList are inherited as they are and work on self.data in place.
\* ------------------------------------------------------------------------
NoOther == ListVal(<<>>)

\* list.insert(i, item): a position beyond an end is that end
list_insert(s, i, item) ==
    Only({SubSeq(s, 1, at) \o <<item>> \o SubSeq(s, at + 1, Len(s)) :
          at \in {IF i < 0 THEN Max(0, Len(s) + i) ELSE Min(i, Len(s))}})

\* _SimpleIndex.append
SimpleIndex_append(self, item) ==
    IF ~is_hashable(item) THEN IndexOutcome("TypeError", self, <<>>, NoOther)
    ELSE Only({IndexOutcome(new.err, self, new.data, NoOther) :
               new \in {SimpleIndex_init(Append(self, item))}})

\* _SimpleIndex.insert
SimpleIndex_insert(self, i, item) ==
    IF ~is_hashable(item) THEN IndexOutcome("TypeError", self, <<>>, NoOther)
    ELSE Only({IndexOutcome(new.err, self, new.data, NoOther) :
               new \in {SimpleIndex_init(list_insert(self, i, item))}})

\* _SimpleIndex.extend
SimpleIndex_extend(self, other) ==
    IF other.kind # "index"
    THEN IndexOutcome("TypeError", self, <<>>, other)
    ELSE Only({IndexOutcome(new.err, self, new.data, other) :
               new \in {SimpleIndex_init(self \o other.items)}})

\* _SimpleIndex.clear
SimpleIndex_clear(self) ==
    Only({IndexOutcome(new.err, self, new.data, NoOther) :
          new \in {SimpleIndex_init(<<>>)}})

\* _SimpleIndex.__setitem__
SimpleIndex_setitem(self, i, item) ==
    IndexOutcome("TypeError", self, <<>>, NoOther)

\* _SimpleIndex.__delitem__
SimpleIndex_delitem(self, i) ==
    IndexOutcome("TypeError", self, <<>>, NoOther)

\* the outcome of a method of UserList that works on self.data and returns
\* a value or None
InplaceOutcome(err, data, retval) ==
    [Outcome(err, "", data) EXCEPT !.retval = retval,
                                  !.retkind = IF err = "" THEN "value" ELSE ""]

\* UserList.pop(): self.data.pop()
UserList_pop(self) ==
    IF self = <<>> THEN InplaceOutcome("IndexError", self, PyNone)
    ELSE InplaceOutcome("", SubSeq(self, 1, Len(self) - 1), self[Len(self)])

\* UserList.remove(item): self.data.remove(item), the first occurrence
UserList_remove(self, item) ==
    IF ~Contains(self, item) THEN InplaceOutcome("ValueError", self, PyNone)
    ELSE Only({InplaceOutcome("", SubSeq(self, 1, at - 1)
                                  \o SubSeq(self, at + 1, Len(self)), PyNone) :
               at \in {CHOOSE i \in 1..Len(self) :
                          /\ self[i] = item
                          /\ \A j \in 1..(i - 1) : self[j] # item}})

\* UserList.reverse(): self.data.reverse()
UserList_reverse(self) ==
    InplaceOutcome("", [i \in 1..Len(self) |-> self[Len(self) + 1 - i]], PyNone)

\* UserList.__iadd__(other): self.data += list(other); return self
UserList_iadd(self, other) ==
    [Outcome("", "", self \o other.items)
       EXCEPT !.ret = self \o other.items, !.retkind = "index",
              !.retobj = "self", !.norm = value_exhaust(other).items]

\* ------------------------------------------------------------------------
\* The inputs of the calls
\* ------------------------------------------------------------------------
Classes ==
    {Class("SliceDict", NoTypes, NoTypes),
     Class("TypedSliceDict", Types(FALSE, {"str"}), NoTypes),
     Class("TypedSliceDict", NoTypes, Types(FALSE, {"int"})),
     Class("TypedSliceDict", Types(FALSE, {"str"}), Types(FALSE, {"int"}))}

\* the dicts of at most n items with keys in K and values in V
DictsUpTo(K, V, n) ==
    {d \in SeqsUpTo({Item(k, v) : k \in K, v \in V}, n) :
        \A i, j \in 1..Len(d) : d[i].k = d[j].k => i = j}

OptInts(S) == {<<>>} \cup {<<n>> : n \in S}

Slices ==
    {SliceSel(a, b, c) : a \in OptInts({1, -1}), b \in OptInts({1, 5}),
                         c \in OptInts({2, -1})}
    \cup {SliceSel(<<>>, <<>>, <<0>>)}

ListSelectors ==
    {ListSel(s, "") : s \in SeqsUpTo(SelObjs, MaxSel)}
    \cup {ListSel(<<StrA>>, "bool"), ListSel(<<BFalse, StrA>>, "bool"),
          ListSel(<<StrB, StrA, StrB>>, "bool")}
    \cup {ListSel(<<AList>>, ""), ListSel(<<StrA, AList>>, "")}

KeySelectors == {KeySel(k) : k \in KeyObjs}

CompoundSelectors == ListSelectors \cup Slices \cup {OtherSel}

Selectors == KeySelectors \cup CompoundSelectors

ObjValues == {ObjVal(o) : o \in ValObjs}

Values ==
    ObjValues
    \cup {ListVal(s) : s \in SeqsUpTo(ValObjs, MaxVal)}
    \cup {DictVal(d) : d \in DictsUpTo({StrA, StrB}, ValObjs, MaxVal)}
    \cup {IterVal(s) : s \in SeqsUpTo({IntTwo}, MaxVal)}

Others == DictsUpTo(KeyObjs, ValObjs, 2)

\* ------------------------------------------------------------------------
\* State
\* ------------------------------------------------------------------------
VARIABLES
    cls,    \* the class of the container and its _key_types, _value_types
    data,   \* self.data
    index,  \* self._index of a container that caches its index
    last    \* the last call: its arguments, the dict before it, its outcome

vars == <<cls, data, index, last>>

NoOutcome == Outcome("", "", <<>>)

\* prev is the outcome of the call before, for a call that goes on from it
Call(op, key, value, other, pre, out) ==
    [op |-> op, key |-> key, value |-> value, other |-> other, pre |-> pre,
     out |-> out, prev |-> NoOutcome]

NoValue == ObjVal(PyNone)

Init ==
    \E c \in Classes, other \in DictsUpTo(KeyObjs, ValObjs, MaxLen) :
        \E out \in {SliceDict_init(c, other)} :
            /\ out.err = ""
            /\ cls = c
            /\ data = out.data
            /\ index = <<>>
            /\ last = Call("init", OtherSel, NoValue, other, <<>>, out)

\* no call is running: the caller is free to make the next one
Idle == last.op = "idle"

\* Every action is a method of the class of self: cls \in Classes for the
\* methods of SliceDict and TypedSliceDict.

\* self[key] = value
SetItem ==
    /\ Idle
    /\ cls \in Classes
    /\ \E key \in Selectors :
        \E value \in (IF key.kind = "key" THEN ObjValues ELSE Values) :
        \E out \in {SliceDict_setitem(cls, data, key, value)} :
            /\ Len(out.data) <= MaxLen
            /\ data' = out.data
            /\ last' = Call("setitem", key, value, <<>>, data, out)
            /\ UNCHANGED <<cls, index>>

\* self[key]
GetItem ==
    /\ Idle
    /\ cls \in Classes
    /\ \E key \in Selectors :
        \E out \in {SliceDict_getitem(cls, data, key)} :
            /\ data' = out.data
            /\ last' = Call("getitem", key, NoValue, <<>>, data, out)
            /\ UNCHANGED <<cls, index>>

\* del self[key]
DelItem ==
    /\ Idle
    /\ cls \in Classes
    /\ \E k \in KeyObjs :
        \E out \in {SliceDict_delitem(data, k)} :
            /\ data' = out.data
            /\ last' = Call("delitem", KeySel(k), NoValue, <<>>, data, out)
            /\ UNCHANGED <<cls, index>>

\* self.update(other)
Update ==
    /\ Idle
    /\ cls \in Classes
    /\ \E other \in Others :
        \E out \in {SliceDict_update(cls, data, other)} :
            /\ Len(out.data) <= MaxLen
            /\ data' = out.data
            /\ last' = Call("update", OtherSel, NoValue, other, data, out)
            /\ UNCHANGED <<cls, index>>

\* self |= other
Ior ==
    /\ Idle
    /\ cls \in Classes
    /\ \E other \in Others :
        \E out \in {SliceDict_ior(cls, data, other)} :
            /\ Len(out.data) <= MaxLen
            /\ data' = out.data
            /\ last' = Call("ior", OtherSel, NoValue, other, data, out)
            /\ UNCHANGED <<cls, index>>

\* self.setdefault(key, default)
SetDefault ==
    /\ Idle
    /\ cls \in Classes
    /\ \E k \in KeyObjs, default \in ValObjs :
        \E out \in {SliceDict_setdefault(cls, data, k, default)} :
            /\ Len(out.data) <= MaxLen
            /\ data' = out.data
            /\ last' = Call("setdefault", KeySel(k), ObjVal(default), <<>>,
                           data, out)
            /\ UNCHANGED <<cls, index>>

\* the call has returned or raised; the caller goes on with the container
Return ==
    /\ ~Idle
    /\ last' = Call("idle", OtherSel, NoValue, <<>>, <<>>, NoOutcome)
    /\ UNCHANGED <<cls, data, index>>

\* self[key] = value; self[key] : the read that follows a compound write
\* that succeeded, with the same selector
ReadBack ==
    /\ cls \in Classes
    /\ last.op = "setitem"
    /\ last.key.kind # "key"
    /\ last.out.err = ""
    /\ \E out \in {SliceDict_getitem(cls, data, last.key)} :
        /\ data' = out.data
        /\ last' = [Call("readback", last.key, last.value, <<>>, data, out)
                      EXCEPT !.prev = last.out]
        /\ UNCHANGED <<cls, index>>

\* self[key] = self[key] : the write, with the same selector, of the
\* container that a compound read returned
SelfAssign ==
    /\ cls \in Classes
    /\ last.op = "getitem"
    /\ last.key.kind # "key"
    /\ last.out.err = ""
    /\ \E out \in {SliceDict_setitem(cls, data, last.key,
                                       DictVal(last.out.ret))} :
        /\ data' = out.data
        /\ last' = [Call("selfassign", last.key, DictVal(last.out.ret), <<>>,
                         data, out)
                      EXCEPT !.prev = last.out]
        /\ UNCHANGED <<cls, index>>

Next ==
    \/ SetItem \/ GetItem \/ DelItem \/ Update \/ Ior \/ SetDefault
    \/ ReadBack \/ SelfAssign \/ Return

Spec == Init /\ [][Next]_vars

\* ------------------------------------------------------------------------
\* The containers with an index view: IndexContainer (_BaseContainer with
\* an _Axis) and BaseContainer (with the cached self._index)
\* ------------------------------------------------------------------------
\* class IndexContainer(_BaseContainer): index = _Axis("index")
IndexContainer == Class("IndexContainer", NoTypes, NoTypes)

\* a subclass of IndexContainer whose _set_single_item_callback raises a
\* TypeError for a key that is no str
StrKeyContainer == Class("IndexContainer", Types(FALSE, {"str"}), NoTypes)

\* class BaseContainer(dict)
BaseContainer == Class("BaseContainer", NoTypes, NoTypes)

IndexClasses == {IndexContainer, StrKeyContainer, BaseContainer}

\* the selectors of the writes: keys, lists of one and of two keys, the
\* masks among them, slices
IndexSelectors ==
    KeySelectors
    \cup {ListSel(<<>>, "")}
    \cup {ListSel(<<a>>, "") : a \in KeyObjs}
    \cup {ListSel(<<a, b>>, "") : a, b \in KeyObjs}
    \cup {SliceSel(<<>>, <<>>, <<>>), SliceSel(<<1>>, <<>>, <<>>),
          SliceSel(<<>>, <<>>, <<-1>>), SliceSel(<<>>, <<>>, <<0>>)}
    \cup {OtherSel}

\* the values of the writes
IndexValues ==
    ObjValues
    \cup {ListVal(<<>>), ListVal(<<IntTwo>>), ListVal(<<StrA, IntTwo>>)}
    \cup {DictVal(<<Item(StrB, IntTwo)>>)}
    \cup {IterVal(<<IntTwo>>), IterVal(<<StrA, IntTwo>>)}

\* the label sequences that are assigned to the index view
Labels == SeqsUpTo(KeyObjs, MaxLen + 1)

Cached == cls.klass = "BaseContainer"

\* the outcome of a call on an IndexContainer, which has no self._index
NoIndex(out) == [out EXCEPT !.index = index]

InitIndex ==
    \E c \in IndexClasses, other \in DictsUpTo(KeyObjs, ValObjs, MaxLen) :
        \E out \in {IF c.klass = "BaseContainer" THEN BaseContainer_init(other)
                    ELSE AxisContainer_update(c, <<>>, other, 1)} :
            /\ out.err = ""
            /\ cls = c
            /\ data = out.data
            /\ index = out.index
            /\ last = Call("init", OtherSel, NoValue, other, <<>>, out)

\* self[key] = value
ContainerSetItem ==
    /\ Idle
    /\ cls \in IndexClasses
    /\ \E key \in IndexSelectors :
        \E value \in (IF key.kind = "key" THEN ObjValues ELSE IndexValues) :
        \E out \in {IF Cached THEN BaseContainer_setitem(data, index, key, value)
                    ELSE NoIndex(AxisContainer_setitem(cls, data, key, value))} :
            /\ Len(out.data) <= MaxLen
            /\ data' = out.data
            /\ index' = out.index
            /\ last' = Call("setitem", key, value, <<>>, data, out)
            /\ UNCHANGED cls

\* del self[key]
ContainerDelItem ==
    /\ Idle
    /\ cls \in IndexClasses
    /\ \E k \in KeyObjs :
        \E out \in {IF Cached THEN BaseContainer_delitem(data, index, k)
                    ELSE NoIndex(AxisContainer_delitem(data, k))} :
            /\ data' = out.data
            /\ index' = out.index
            /\ last' = Call("delitem", KeySel(k), NoValue, <<>>, data, out)
            /\ UNCHANGED cls

\* self.setdefault(key, default)
ContainerSetDefault ==
    /\ Idle
    /\ cls \in IndexClasses
    /\ \E k \in KeyObjs, default \in ValObjs :
        \E out \in {IF Cached THEN dict_setdefault(data, index, k, default)
                    ELSE NoIndex(AxisContainer_setdefault(cls, data, k, default))} :
            /\ Len(out.data) <= MaxLen
            /\ data' = out.data
            /\ index' = out.index
            /\ last' = Call("setdefault", KeySel(k), ObjVal(default), <<>>,
                           data, out)
            /\ UNCHANGED cls

\* self.pop(key) and self.pop(key, default)
ContainerPop ==
    /\ Idle
    /\ cls \in IndexClasses
    /\ \E k \in KeyObjs, default \in {<<>>, <<PyNone>>} :
        \E out \in {IF Cached THEN dict_pop(data, index, k, default)
                    ELSE NoIndex(AxisContainer_pop(data, k, default))} :
            /\ data' = out.data
            /\ index' = out.index
            /\ last' = Call("pop", KeySel(k), NoValue, <<>>, data, out)
            /\ UNCHANGED cls

\* self.popitem()
ContainerPopItem ==
    /\ Idle
    /\ cls \in IndexClasses
    /\ \E out \in {IF Cached THEN dict_popitem(data, index)
                    ELSE NoIndex(AxisContainer_popitem(data))} :
            /\ data' = out.data
            /\ index' = out.index
            /\ last' = Call("popitem", OtherSel, NoValue, <<>>, data, out)
            /\ UNCHANGED cls

\* self.update(other)
ContainerUpdate ==
    /\ Idle
    /\ cls \in IndexClasses
    /\ \E other \in Others :
        \E out \in {IF Cached THEN dict_update_method(data, index, other)
                    ELSE NoIndex(AxisContainer_update(cls, data, other, 1))} :
            /\ Len(out.data) <= MaxLen
            /\ data' = out.data
            /\ index' = out.index
            /\ last' = Call("update", OtherSel, NoValue, other, data, out)
            /\ UNCHANGED cls

\* self.clear()
ContainerClear ==
    /\ Idle
    /\ cls \in IndexClasses
    /\ \E out \in {IF Cached THEN dict_clear(data, index)
                    ELSE NoIndex(AxisContainer_clear(data))} :
            /\ data' = out.data
            /\ index' = out.index
            /\ last' = Call("clear", OtherSel, NoValue, <<>>, data, out)
            /\ UNCHANGED cls

\* self |= other
ContainerIor ==
    /\ Idle
    /\ cls \in IndexClasses
    /\ \E other \in Others :
        \E out \in {IF Cached THEN dict_update_method(data, index, other)
                    ELSE NoIndex(AxisContainer_ior(data, other))} :
            /\ Len(out.data) <= MaxLen
            /\ data' = out.data
            /\ index' = out.index
            /\ last' = Call("ior", OtherSel, NoValue, other, data, out)
            /\ UNCHANGED cls

\* self.index = labels
ContainerRename ==
    /\ Idle
    /\ cls \in IndexClasses
    /\ \E labels \in Labels :
        \E out \in {IF Cached THEN BaseContainer_index_set(data, index, labels)
                    ELSE NoIndex(Axis_set(cls, data, labels))} :
            /\ data' = out.data
            /\ index' = out.index
            /\ last' = Call("rename", ListSel(labels, ""), NoValue, <<>>,
                           data, out)
            /\ UNCHANGED cls

NextIndex ==
    \/ ContainerSetItem \/ ContainerDelItem \/ ContainerSetDefault
    \/ ContainerPop \/ ContainerPopItem \/ ContainerUpdate
    \/ ContainerClear \/ ContainerIor \/ ContainerRename \/ Return

SpecIndex == InitIndex /\ [][NextIndex]_vars

\* all the containers: SliceDict, TypedSliceDict, IndexContainer and
\* BaseContainer
NextAll ==
    \/ SetItem \/ GetItem \/ DelItem \/ Update \/ Ior \/ SetDefault
    \/ ReadBack \/ SelfAssign
    \/ ContainerSetItem \/ ContainerDelItem \/ ContainerSetDefault
    \/ ContainerPop \/ ContainerPopItem \/ ContainerUpdate
    \/ ContainerClear \/ ContainerIor \/ ContainerRename \/ Return

InitAll == Init \/ InitIndex

SpecAll == InitAll /\ [][NextAll]_vars

\* ------------------------------------------------------------------------
\* The container that a compound read returned, next to the container it
\* was read from.  last.out.ret is the dict of the returned container and
\* last.out.retobj tells which dict object that is: "new", a dict of its
\* own, or "self", the very dict self.data.
\* ------------------------------------------------------------------------
\* the dicts of the two containers after a call has made the dict of
\* target ("self" or "ret") into new: one object has one content
Store(retobj, target, selfdata, retdata, new) ==
    [self |-> IF target = "self" \/ retobj = "self" THEN new ELSE selfdata,
     ret |-> IF target = "ret" \/ retobj = "self" THEN new ELSE retdata]

\* a compound read has returned a container
Returned ==
    /\ last.op = "getitem"
    /\ last.out.err = ""
    /\ last.out.retkind = "container"

\* d = c[selector]; d[k] = v or del d[k] : a key is added to, replaced in
\* or deleted from the returned container
WriteReturned ==
    /\ cls \in Classes
    /\ Returned
    /\ \E k \in KeyObjs, v \in ValObjs, op \in {"setitem", "delitem"} :
        \E out \in {IF op = "setitem"
                     THEN SliceDict_setitem(cls, last.out.ret, KeySel(k),
                                            ObjVal(v))
                     ELSE SliceDict_delitem(last.out.ret, k)} :
        \E st \in {Store(last.out.retobj, "ret", data, last.out.ret,
                          out.data)} :
            /\ data' = st.self
            /\ last' = [Call("returned_" \o op, KeySel(k), ObjVal(v), <<>>,
                             data, [out EXCEPT !.ret = st.ret])
                          EXCEPT !.prev = last.out]
            /\ UNCHANGED <<cls, index>>

\* d = c[selector]; c[k] = v or del c[k] : a key is added to, replaced in
\* or deleted from the container after the read
WriteAfterRead ==
    /\ cls \in Classes
    /\ Returned
    /\ \E k \in KeyObjs, v \in ValObjs, op \in {"setitem", "delitem"} :
        \E out \in {IF op = "setitem"
                     THEN SliceDict_setitem(cls, data, KeySel(k), ObjVal(v))
                     ELSE SliceDict_delitem(data, k)} :
        \E st \in {Store(last.out.retobj, "self", data, last.out.ret,
                          out.data)} :
            /\ Len(st.self) <= MaxLen
            /\ data' = st.self
            /\ last' = [Call("after_" \o op, KeySel(k), ObjVal(v), <<>>,
                             data, [out EXCEPT !.ret = st.ret])
                          EXCEPT !.prev = last.out]
            /\ UNCHANGED <<cls, index>>

NextCopy == GetItem \/ WriteReturned \/ WriteAfterRead \/ Return

SpecCopy == Init /\ [][NextCopy]_vars



\* ------------------------------------------------------------------------
\* An index on its own: data is self.data of a _SimpleIndex, the list of
\* its elements
\* ------------------------------------------------------------------------
IntOne == PyObj("int", 1)

SimpleIndex == Class("_SimpleIndex", NoTypes, NoTypes)

\* the labels of the indexes
Elements == {IntOne, IntTwo, StrA}

\* the other operands of the set algebra: lists and iterators of labels,
\* and lists with an element that cannot be hashed
Operands ==
    {ListVal(s) : s \in SeqsUpTo(Elements, MaxVal + 1)}
    \cup {IterVal(s) : s \in SeqsUpTo(Elements, MaxVal + 1)}
    \cup {ListVal(<<AList>>), ListVal(<<IntOne, AList>>),
          ListVal(<<AList, IntTwo>>)}

\* the arguments of extend and +=: indexes and lists of labels
Extensions ==
    {IndexVal(s) : s \in SeqsUpTo(Elements, 2)}
    \cup {ListVal(s) : s \in SeqsUpTo(Elements, 1)}

Positions == {-3, -1, 0, 1, 5}

InitSimpleIndex ==
    \E initlist \in SeqsUpTo(Elements \cup {AList}, MaxLen + 1) :
        \E out \in {SimpleIndex_init(initlist)} :
            /\ out.err = ""
            /\ cls = SimpleIndex
            /\ data = out.data
            /\ index = <<>>
            /\ last = Call("init", OtherSel, ListVal(initlist), <<>>, <<>>,
                           IndexOutcome("", out.data, out.data, NoOther))

\* self.union(other)
IndexUnion ==
    /\ Idle
    /\ cls = SimpleIndex
    /\ \E other \in Operands :
        \E out \in {SimpleIndex_union(data, other)} :
            /\ data' = out.data
            /\ last' = Call("union", OtherSel, other, <<>>, data, out)
            /\ UNCHANGED <<cls, index>>

\* self.difference(other)
IndexDifference ==
    /\ Idle
    /\ cls = SimpleIndex
    /\ \E other \in Operands :
        \E out \in {SimpleIndex_difference_iterable(data, other)} :
            /\ data' = out.data
            /\ last' = Call("difference", OtherSel, other, <<>>, data, out)
            /\ UNCHANGED <<cls, index>>

\* self.unique().difference(other)
IndexUniqueDifference ==
    /\ Idle
    /\ cls = SimpleIndex
    /\ \E other \in Operands :
        \E out \in {SimpleIndex_difference_iterable(SimpleIndex_unique(data), other)} :
            /\ data' = out.data
            /\ last' = Call("unique_difference", OtherSel, other, <<>>, data, out)
            /\ UNCHANGED <<cls, index>>

\* self.intersection(other)
IndexIntersection ==
    /\ Idle
    /\ cls = SimpleIndex
    /\ \E other \in Operands :
        \E out \in {SimpleIndex_intersection(data, other)} :
            /\ data' = out.data
            /\ last' = Call("intersection", OtherSel, other, <<>>, data, out)
            /\ UNCHANGED <<cls, index>>

\* self.symmetric_difference(other)
IndexSymmetricDifference ==
    /\ Idle
    /\ cls = SimpleIndex
    /\ \E other \in Operands :
        \E out \in {SimpleIndex_symmetric_difference(data, other)} :
            /\ data' = out.data
            /\ last' = Call("symmetric_difference", OtherSel, other, <<>>, data, out)
            /\ UNCHANGED <<cls, index>>

\* self.append(item)
IndexAppend ==
    /\ Idle
    /\ cls = SimpleIndex
    /\ \E item \in Elements \cup {AList} :
        \E out \in {SimpleIndex_append(data, item)} :
            /\ data' = out.data
            /\ last' = Call("append", KeySel(item), NoValue, <<>>, data, out)
            /\ UNCHANGED <<cls, index>>

\* self.insert(i, item)
IndexInsert ==
    /\ Idle
    /\ cls = SimpleIndex
    /\ \E i \in Positions, item \in Elements \cup {AList} :
        \E out \in {SimpleIndex_insert(data, i, item)} :
            /\ data' = out.data
            /\ last' = Call("insert", KeySel(item), ObjVal(PyObj("int", i)), <<>>, data, out)
            /\ UNCHANGED <<cls, index>>

\* self.extend(other)
IndexExtend ==
    /\ Idle
    /\ cls = SimpleIndex
    /\ \E other \in Extensions :
        \E out \in {SimpleIndex_extend(data, other)} :
            /\ data' = out.data
            /\ last' = Call("extend", OtherSel, other, <<>>, data, out)
            /\ UNCHANGED <<cls, index>>

\* self.clear()
IndexClear ==
    /\ Idle
    /\ cls = SimpleIndex
    /\ \E other \in {NoOther} :
        \E out \in {SimpleIndex_clear(data)} :
            /\ data' = out.data
            /\ last' = Call("clear", OtherSel, NoValue, <<>>, data, out)
            /\ UNCHANGED <<cls, index>>

\* self[i] = item
IndexSetAt ==
    /\ Idle
    /\ cls = SimpleIndex
    /\ \E i \in Positions, item \in Elements :
        \E out \in {SimpleIndex_setitem(data, i, item)} :
            /\ data' = out.data
            /\ last' = Call("setat", KeySel(item), ObjVal(PyObj("int", i)), <<>>, data, out)
            /\ UNCHANGED <<cls, index>>

\* del self[i]
IndexDelAt ==
    /\ Idle
    /\ cls = SimpleIndex
    /\ \E i \in Positions :
        \E out \in {SimpleIndex_delitem(data, i)} :
            /\ data' = out.data
            /\ last' = Call("delat", OtherSel, ObjVal(PyObj("int", i)), <<>>, data, out)
            /\ UNCHANGED <<cls, index>>

\* self.pop()
IndexPop ==
    /\ Idle
    /\ cls = SimpleIndex
    /\ \E other \in {NoOther} :
        \E out \in {UserList_pop(data)} :
            /\ data' = out.data
            /\ last' = Call("pop", OtherSel, NoValue, <<>>, data, out)
            /\ UNCHANGED <<cls, index>>

\* self.remove(item)
IndexRemove ==
    /\ Idle
    /\ cls = SimpleIndex
    /\ \E item \in Elements :
        \E out \in {UserList_remove(data, item)} :
            /\ data' = out.data
            /\ last' = Call("remove", KeySel(item), NoValue, <<>>, data, out)
            /\ UNCHANGED <<cls, index>>

\* self.reverse()
IndexReverse ==
    /\ Idle
    /\ cls = SimpleIndex
    /\ \E other \in {NoOther} :
        \E out \in {UserList_reverse(data)} :
            /\ data' = out.data
            /\ last' = Call("reverse", OtherSel, NoValue, <<>>, data, out)
            /\ UNCHANGED <<cls, index>>

\* self += other
IndexIAdd ==
    /\ Idle
    /\ cls = SimpleIndex
    /\ \E other \in Extensions :
        \E out \in {UserList_iadd(data, other)} :
            /\ Len(out.data) <= MaxLen + 1
            /\ data' = out.data
            /\ last' = Call("iadd", OtherSel, other, <<>>, data, out)
            /\ UNCHANGED <<cls, index>>

NextSimpleIndex ==
    \/ IndexUnion \/ IndexDifference \/ IndexUniqueDifference
    \/ IndexIntersection \/ IndexSymmetricDifference
    \/ IndexAppend \/ IndexInsert \/ IndexExtend \/ IndexClear
    \/ IndexSetAt \/ IndexDelAt
    \/ IndexPop \/ IndexRemove \/ IndexReverse \/ IndexIAdd
    \/ Return

SpecSimpleIndex == InitSimpleIndex /\ [][NextSimpleIndex]_vars

\* ------------------------------------------------------------------------
\* Typed containers that declare one class in place of a tuple of classes:
\* _key_types = str, _value_types = int
\* ------------------------------------------------------------------------
\* the class int as an object: an instance of type
ClassInt == PyObj("type", 0)

SingleTypeClasses ==
    {Class("TypedSliceDict", Types(TRUE, {"str"}), NoTypes),
     Class("TypedSliceDict", NoTypes, Types(TRUE, {"int"})),
     Class("TypedSliceDict", Types(TRUE, {"str"}), Types(TRUE, {"int"}))}

TypedKeys == KeyObjs \cup {ClassInt}
TypedValues == ValObjs \cup {ClassInt}

\* TypedSliceDict(): the empty container
InitTyped ==
    \E c \in SingleTypeClasses :
        \E out \in {SliceDict_init(c, <<>>)} :
            /\ cls = c
            /\ data = out.data
            /\ index = <<>>
            /\ last = Call("init", OtherSel, NoValue, <<>>, <<>>, out)

\* self[key] = value for a hashable key
TypedSetItem ==
    /\ Idle
    /\ cls \in SingleTypeClasses
    /\ \E k \in TypedKeys, v \in TypedValues :
        \E out \in {SliceDict_setitem(cls, data, KeySel(k), ObjVal(v))} :
            /\ Len(out.data) <= MaxLen
            /\ data' = out.data
            /\ last' = Call("setitem", KeySel(k), ObjVal(v), <<>>, data, out)
            /\ UNCHANGED <<cls, index>>

\* del self[key]
TypedDelItem ==
    /\ Idle
    /\ cls \in SingleTypeClasses
    /\ \E k \in TypedKeys :
        \E out \in {SliceDict_delitem(data, k)} :
            /\ data' = out.data
            /\ last' = Call("delitem", KeySel(k), NoValue, <<>>, data, out)
            /\ UNCHANGED <<cls, index>>

NextTyped == TypedSetItem \/ TypedDelItem \/ Return

SpecTyped == InitTyped /\ [][NextTyped]_vars

\* ------------------------------------------------------------------------
\* Properties
\* ------------------------------------------------------------------------
Range(s) == {s[i] : i \in 1..Len(s)}
NoDup(s) == \A i, j \in 1..Len(s) : s[i] = s[j] => i = j
FirstIdx(s, x) == CHOOSE i \in 1..Len(s) : s[i] = x /\ \A j \in 1..(i - 1) : s[j] # x
LastIdx(s, x) == CHOOSE i \in 1..Len(s) : s[i] = x /\ \A j \in (i + 1)..Len(s) : s[j] # x

\* u holds elements of s, each once, in the order of their first occurrence
FirstOccurrenceOrder(u, s) ==
    /\ NoDup(u)
    /\ Range(u) \subseteq Range(s)
    /\ \A i, j \in 1..Len(u) : i < j => FirstIdx(s, u[i]) < FirstIdx(s, u[j])

\* the j-th smallest member of a set of integers
Nth(P, j) == CHOOSE p \in P : Cardinality({q \in P : q < p}) = j - 1

\* the elements of s at the positions of P, by increasing position
AtPositions(s, P) == [j \in 1..Cardinality(P) |-> s[Nth(P, j)]]

CompoundCall(op) == last.op = op /\ last.key.kind # "key"
Unchanged == data = last.pre
\* the selector of the last call is a list-like that is taken as a mask
MaskCall ==
    /\ last.op \in {"getitem", "setitem"}
    /\ last.key.kind = "list"
    /\ \A i \in 1..Len(last.key.items) : is_hashable(last.key.items[i])
    /\ \/ last.key.dtype = "bool"
       \/ \A i \in 1..Len(last.key.items) : last.key.items[i].ty = "bool"
\* the selector of the last call is a list of keys, all of them in the dict
KeyListCall ==
    /\ last.key.kind = "list"
    /\ last.key.dtype # "bool"
    /\ \E i \in 1..Len(last.key.items) : last.key.items[i].ty # "bool"
    /\ \A i \in 1..Len(last.key.items) : dict_contains(last.pre, last.key.items[i])

\* C1: a compound write that raises while its pairs are applied leaves the
\* keys, their order and the values of the container as they were before
\* the call; no earlier pair of the call stays applied.
C1_AtomicBulkWrite ==
    (CompoundCall("setitem") /\ last.out.err # "" /\ last.out.at = "apply")
        => Unchanged

\* a typed container rejects the second pair after the first one, which
\* would have changed the dict, was applied
C1_Witness ==
    /\ CompoundCall("setitem")
    /\ last.out.err = "TypeError"
    /\ last.out.at = "apply"
    /\ Len(last.out.expanded) >= 2
    /\ LET first == setitem_single(cls, last.pre, last.out.expanded[1],
                                   last.out.norm[1])
       IN first.err = "" /\ first.data # last.pre

\* C2: in a TypedSliceDict every stored key is an instance of a class of a
\* non-empty _key_types and every stored value one of a non-empty
\* _value_types, whatever calls succeeded or failed; an empty tuple rejects
\* nothing.
C2_TypedInvariant ==
    /\ (cls.klass = "TypedSliceDict" /\ ~cls.key_types.is_type
        /\ cls.key_types.ts # {})
          => \A i \in 1..Len(data) : IsInstance(data[i].k, cls.key_types.ts)
    /\ (cls.klass = "TypedSliceDict" /\ ~cls.value_types.is_type
        /\ cls.value_types.ts # {})
          => \A i \in 1..Len(data) : IsInstance(data[i].v, cls.value_types.ts)
    /\ (last.op = "setitem" /\ last.key.kind = "key" /\ last.out.err # "")
          => \/ last.out.at = "key" /\ cls.key_types # NoTypes
             \/ last.out.at = "value" /\ cls.value_types # NoTypes

\* an update of a typed container failed after it had stored a pair
C2_Witness ==
    /\ cls.klass = "TypedSliceDict"
    /\ cls.key_types.ts # {}
    /\ cls.value_types.ts # {}
    /\ last.op = "update"
    /\ last.out.err = "TypeError"
    /\ data # last.pre

\* C3 as stated: a read by a list of keys that are all in the container
\* returns a container whose key order is exactly the list.
C3_Original ==
    (last.op = "getitem" /\ KeyListCall)
        => /\ last.out.err = ""
            /\ dict_keys(last.out.ret) = last.key.items

\* C3: a read by a list of keys (not taken as a mask) that are all in the
\* container returns a container whose keys are the distinct keys of the
\* list in the order of their first occurrence, each with its current value,
\* and leaves the container as it was.
C3_ReadByKeyList ==
    (last.op = "getitem" /\ KeyListCall)
        => /\ last.out.err = ""
            /\ last.out.retkind = "container"
            /\ FirstOccurrenceOrder(dict_keys(last.out.ret), last.key.items)
            /\ Range(dict_keys(last.out.ret)) = Range(last.key.items)
            /\ (NoDup(last.key.items)
                 => dict_keys(last.out.ret) = last.key.items)
            /\ \A i \in 1..Len(last.out.ret) :
                 last.out.ret[i].v = dict_get(last.pre, last.out.ret[i].k)
            /\ Unchanged

\* a read by a list that names two keys, the second before the first
C3_Witness ==
    /\ last.op = "getitem"
    /\ KeyListCall
    /\ Len(last.key.items) = 2
    /\ NoDup(last.key.items)
    /\ dict_keys(last.pre) # last.key.items
    /\ last.out.retkind = "container"

\* a read by a list that repeats a key
C3_WitnessRepeat ==
    /\ last.op = "getitem"
    /\ KeyListCall
    /\ ~NoDup(last.key.items)
    /\ last.out.retkind = "container"

\* C4: a compound read whose expanded selector has a key that is not in
\* the container raises a KeyError that lists the absent keys, each once, in
\* the order of the selector, and no present key; the container is left as
\* it was; without an absent key no KeyError is raised.
C4_MissingKeys ==
    (CompoundCall("getitem") /\ last.out.at # "expand")
        => LET absent == {k \in Range(last.out.expanded) :
                             ~dict_contains(last.pre, k)}
           IN /\ absent # {}
                   => /\ last.out.err = "KeyError"
                      /\ Range(last.out.missing) = absent
                      /\ FirstOccurrenceOrder(last.out.missing,
                                              last.out.expanded)
                      /\ Unchanged
              /\ absent = {} => last.out.err # "KeyError"

\* a read by a list of two absent keys
C4_Witness ==
    /\ CompoundCall("getitem")
    /\ last.out.err = "KeyError"
    /\ Len(last.out.missing) = 2

\* a read by a list of a present and an absent key
C4_WitnessPresent ==
    /\ CompoundCall("getitem")
    /\ last.out.err = "KeyError"
    /\ Len(last.out.missing) = 1
    /\ \E k \in Range(last.out.expanded) : dict_contains(last.pre, k)

\* the positions (from 0) that a slice with integer or None fields selects
\* in a sequence of length n
SlicePositions(sl, n) ==
    LET step == IF sl.step = <<>> THEN 1 ELSE sl.step[1]
        Abs(f) == IF f[1] < 0 THEN f[1] + n ELSE f[1]
    IN IF step > 0
       THEN LET lo == IF sl.start = <<>> THEN 0 ELSE Max(Abs(sl.start), 0)
                hi == IF sl.stop = <<>> THEN n ELSE Abs(sl.stop)
            IN {p \in 0..(n - 1) : p >= lo /\ p < hi /\ (p - lo) % step = 0}
       ELSE LET hi == IF sl.start = <<>> THEN n - 1
                      ELSE Min(Abs(sl.start), n - 1)
                lo == IF sl.stop = <<>> THEN -1 ELSE Max(Abs(sl.stop), -1)
            IN {p \in 0..(n - 1) : p <= hi /\ p > lo /\ (hi - p) % (-step) = 0}

\* C5: a slice selector of a read or a write expands to the keys, in the
\* key order at the time of the call, at the positions that the slice
\* selects: from start, by step, up to and without stop, with the bounds
\* clipped to the number of keys.
C5_SliceOnCurrentKeys ==
    /\ (last.op \in {"getitem", "setitem"} /\ last.key.kind = "slice"
        /\ last.key.step = <<0>>)
          => last.out.err = "ValueError" /\ last.out.at = "expand" /\ Unchanged
    /\ (last.op \in {"getitem", "setitem"} /\ last.key.kind = "slice"
        /\ last.key.step # <<0>>)
        => LET keys == dict_keys(last.pre)
               P == SlicePositions(last.key, Len(keys))
               step == IF last.key.step = <<>> THEN 1 ELSE last.key.step[1]
           IN /\ last.out.at # "expand"
              /\ Len(last.out.expanded) = Cardinality(P)
              /\ \A j \in 1..Cardinality(P) :
                    last.out.expanded[j] =
                        keys[1 + (IF step > 0 THEN Nth(P, j)
                                  ELSE Nth(P, Cardinality(P) + 1 - j))]

\* a slice with a stop beyond the last key and a step of 2 on two keys
C5_Witness ==
    /\ last.op = "getitem"
    /\ last.key.kind = "slice"
    /\ last.key.stop = <<5>>
    /\ last.key.step = <<2>>
    /\ Len(last.pre) = 2
    /\ Len(last.out.expanded) = 1

\* a slice with a negative step that reverses two keys in a write
C5_WitnessReverse ==
    /\ last.op = "setitem"
    /\ last.key.kind = "slice"
    /\ last.key.step = <<-1>>
    /\ Len(last.out.expanded) = 2

\* C6: a read or a write whose selector is a boolean list-like of a length
\* other than the number of keys fails with a ValueError that reports both
\* lengths and leaves the container as it was.
C6_MaskLength ==
    (MaskCall /\ Len(last.key.items) # Len(last.pre))
        => /\ last.out.err = "ValueError"
            /\ last.out.lens = <<Len(last.key.items), Len(last.pre)>>
            /\ Unchanged

\* a write with a mask that is longer than the container
C6_Witness ==
    /\ MaskCall
    /\ last.op = "setitem"
    /\ Len(last.pre) >= 1
    /\ Len(last.key.items) > Len(last.pre)
    /\ last.out.err = "ValueError"

\* C7: a boolean mask as long as the container expands to the keys at the
\* positions where the mask is true, in key order.
C7_MaskSelection ==
    (MaskCall /\ Len(last.key.items) = Len(last.pre))
        => LET P == {i \in 1..Len(last.pre) : Truthy(last.key.items[i])}
           IN /\ last.out.at # "expand"
              /\ last.out.expanded = AtPositions(dict_keys(last.pre), P)

\* the mask [False, True] on two keys selects the second key
C7_Witness ==
    /\ MaskCall
    /\ last.key.items = <<BFalse, BTrue>>
    /\ Len(last.pre) = 2
    /\ last.out.expanded = <<last.pre[2].k>>

\* C8: after a successful compound write every key of the expanded
\* selector has the value paired with its last occurrence, every other key
\* its previous value, the keys that existed keep their position and the
\* new keys follow in the order of their first occurrence.
C8_WriteInOrder ==
    (CompoundCall("setitem") /\ last.out.err = "")
        => LET K == last.out.expanded
               V == last.out.norm
               old == dict_keys(last.pre)
               new == dict_keys(data)
               added == SubSeq(new, Len(old) + 1, Len(new))
           IN /\ Len(K) = Len(V)
              /\ \A k \in Range(K) :
                    dict_contains(data, k) /\ dict_get(data, k) = V[LastIdx(K, k)]
              /\ \A k \in Range(old) \ Range(K) :
                    dict_contains(data, k)
                    /\ dict_get(data, k) = dict_get(last.pre, k)
              /\ Len(new) >= Len(old)
              /\ SubSeq(new, 1, Len(old)) = old
              /\ Range(added) = Range(K) \ Range(old)
              /\ FirstOccurrenceOrder(added, K)

\* a write that names a key twice, with two values
C8_Witness ==
    /\ CompoundCall("setitem")
    /\ last.out.err = ""
    /\ Len(last.out.expanded) = 2
    /\ last.out.expanded[1] = last.out.expanded[2]
    /\ last.out.norm[1] # last.out.norm[2]

\* a write to the first of two keys
C8_WitnessPosition ==
    /\ CompoundCall("setitem")
    /\ last.out.err = ""
    /\ Len(last.pre) = 2
    /\ last.out.expanded = <<last.pre[1].k>>
    /\ data # last.pre

\* C9: a compound write whose expanded keys and normalized values differ
\* in number fails with a ValueError that reports both numbers and leaves
\* the container as it was.
C9_LengthCheck ==
    (CompoundCall("setitem") /\ last.out.at # "expand"
     /\ setitem_value(last.out.expanded, last.value).err = ""
     /\ Len(last.out.expanded)
          # Len(setitem_value(last.out.expanded, last.value).seq))
        => /\ last.out.err = "ValueError"
            /\ last.out.lens =
                <<Len(last.out.expanded),
                  Len(setitem_value(last.out.expanded, last.value).seq)>>
            /\ Unchanged

\* C10 as stated: a value that is no collection is stored under the one
\* expanded key when there is one, and is a TypeError otherwise.
C10_Original ==
    (CompoundCall("setitem") /\ last.out.at # "expand"
     /\ last.value.kind = "obj")
        => IF Len(last.out.expanded) = 1
           THEN /\ last.out.err = ""
                /\ data = dict_set(last.pre, last.out.expanded[1],
                                   last.value.obj)
           ELSE last.out.err = "TypeError" /\ Unchanged

\* the typed container rejects the pair of the key k and the object v
Rejects(k, v) ==
    /\ cls.klass = "TypedSliceDict"
    /\ \/ cls.key_types # NoTypes /\ ~IsInstance(k, cls.key_types.ts)
       \/ cls.value_types # NoTypes /\ ~IsInstance(v, cls.value_types.ts)

\* C10: a value that is no collection is stored under the one expanded
\* key when there is one, unless a typed container rejects the pair with
\* its TypeError; with no or several expanded keys the write is a TypeError;
\* a write that fails leaves the container as it was.
C10_ScalarBroadcast ==
    (CompoundCall("setitem") /\ last.out.at # "expand"
     /\ last.value.kind = "obj")
        => IF Len(last.out.expanded) = 1
           THEN IF Rejects(last.out.expanded[1], last.value.obj)
                THEN last.out.err = "TypeError" /\ Unchanged
                ELSE /\ last.out.err = ""
                     /\ data = dict_set(last.pre, last.out.expanded[1],
                                        last.value.obj)
           ELSE /\ last.out.err = "TypeError"
                /\ last.out.at = "value"
                /\ Unchanged

\* one object is written through a slice that selects one key
C10_Witness ==
    /\ CompoundCall("setitem")
    /\ last.key.kind = "slice"
    /\ last.value.kind = "obj"
    /\ Len(last.out.expanded) = 1
    /\ last.out.err = ""
    /\ data # last.pre

\* one object is written through a selector that selects no key
C10_WitnessNone ==
    /\ CompoundCall("setitem")
    /\ last.value.kind = "obj"
    /\ last.out.at = "value"
    /\ Len(last.out.expanded) = 0
    /\ last.out.err = "TypeError"

\* C11: in a compound write with a mapping as the value, the value sequence
\* is the values of the mapping in the iteration order of the mapping; they
\* are paired with the expanded keys by position and not looked up by them,
\* and a key of the mapping that is no expanded key is not created.
C11_MappingValue ==
    (CompoundCall("setitem") /\ last.value.kind = "dict"
     /\ last.out.at # "expand")
        => LET K == last.out.expanded
               V == dict_values(last.value.pairs)
           IN IF Len(K) # Len(V)
              THEN last.out.err = "ValueError" /\ Unchanged
              ELSE /\ last.out.norm = V
                   /\ last.out.err # "" => last.out.at = "apply" /\ Unchanged
                   /\ last.out.err = ""
                        => /\ \A i \in 1..Len(K) :
                                 dict_get(data, K[i]) = V[LastIdx(K, K[i])]
                           /\ Range(dict_keys(data))
                                 = Range(dict_keys(last.pre)) \cup Range(K)

\* the mapping {b: x, a: y} is written to the keys [a, b]: a gets x
C11_Witness ==
    /\ CompoundCall("setitem")
    /\ last.value.kind = "dict"
    /\ last.out.err = ""
    /\ last.out.expanded = <<StrA, StrB>>
    /\ dict_keys(last.value.pairs) = <<StrB, StrA>>
    /\ last.value.pairs[1].v # last.value.pairs[2].v
    /\ dict_get(data, StrA) = last.value.pairs[1].v

\* the mapping {b: x} is written to the key [a] of a container without b
C11_WitnessNotCreated ==
    /\ CompoundCall("setitem")
    /\ last.value.kind = "dict"
    /\ last.out.err = ""
    /\ last.out.expanded = <<StrA>>
    /\ dict_keys(last.value.pairs) = <<StrB>>
    /\ ~dict_contains(data, StrB)

\* C12: a compound write whose value is a one-shot iterator that yields as
\* many items as there are expanded keys succeeds and stores the items
\* under the expanded keys in order (a typed container may still reject a
\* pair).
C12_IteratorValue ==
    (CompoundCall("setitem") /\ last.value.kind = "iter"
     /\ last.out.at # "expand"
     /\ Len(last.out.expanded) = Len(last.value.items))
        => \/ last.out.err # "" /\ last.out.at = "apply"
           \/ /\ last.out.err = ""
              /\ \A i \in 1..Len(last.out.expanded) :
                    dict_get(data, last.out.expanded[i])
                        = last.value.items[LastIdx(last.out.expanded,
                                                   last.out.expanded[i])]

\* C13 as stated: the read that follows a compound write that succeeded,
\* with the same selector, returns a container whose keys are the expanded
\* keys in order and whose values are the normalized values by position.
C13_Original ==
    last.op = "readback"
        => /\ last.out.err = ""
            /\ dict_keys(last.out.ret) = last.prev.expanded
            /\ dict_values(last.out.ret) = last.prev.norm

\* C13: the read that follows a compound write that succeeded, with the
\* same selector, expands the selector to the same keys and returns a
\* container whose keys are the distinct expanded keys in the order of
\* their first occurrence, each with the normalized value paired with its
\* last occurrence; when no expanded key repeats these are the expanded
\* keys in order with the normalized values position by position.
C13_WriteThenRead ==
    last.op = "readback"
        => LET K == last.prev.expanded
               V == last.prev.norm
               ret == last.out.ret
           IN /\ last.out.err = ""
              /\ last.out.retkind = "container"
              /\ last.out.expanded = K
              /\ Range(dict_keys(ret)) = Range(K)
              /\ FirstOccurrenceOrder(dict_keys(ret), K)
              /\ \A i \in 1..Len(ret) : ret[i].v = V[LastIdx(K, ret[i].k)]
              /\ NoDup(K) => dict_keys(ret) = K /\ dict_values(ret) = V
              /\ Unchanged

\* a write of two values to the two keys of the container, the second key
\* first, is read back
C13_Witness ==
    /\ last.op = "readback"
    /\ Len(last.prev.expanded) = 2
    /\ last.prev.norm[1] # last.prev.norm[2]
    /\ dict_keys(last.pre) = <<last.prev.expanded[2], last.prev.expanded[1]>>
    /\ dict_values(last.out.ret) = last.prev.norm

\* a write of two values to the same key is read back
C13_WitnessRepeat ==
    /\ last.op = "readback"
    /\ Len(last.prev.expanded) = 2
    /\ ~NoDup(last.prev.expanded)
    /\ last.prev.norm[1] # last.prev.norm[2]
    /\ Len(last.out.ret) = 1

\* the selector of the last call is the list of one key of the container
OneKeyCall ==
    /\ last.key.kind = "list"
    /\ Len(last.key.items) = 1
    /\ dict_contains(last.pre, last.key.items[1])

\* C14: c[[k]] = c[[k]] for a key k of the container leaves the keys, their
\* order and the values as they were, whether the read fails or the write
\* is made.
C14_SelfAssignment ==
    /\ (last.op = "getitem" /\ OneKeyCall) => Unchanged
    /\ (last.op = "selfassign" /\ OneKeyCall)
          => /\ last.out.err = ""
             /\ last.out.expanded = last.prev.expanded
             /\ last.out.norm = dict_values(last.prev.ret)
             /\ Unchanged

\* the first of two keys is assigned to itself
C14_Witness ==
    /\ last.op = "selfassign"
    /\ OneKeyCall
    /\ Len(last.pre) = 2
    /\ last.key.items[1] = last.pre[1].k
    /\ last.out.err = ""
    /\ last.out.expanded = <<last.pre[1].k>>

\* the methods that change a container in place
InplaceMethods ==
    {"setitem", "delitem", "setdefault", "pop", "popitem", "update", "clear",
     "ior"}

C15_WitnessPopItem ==
    /\ cls.klass = "IndexContainer"
    /\ last.op = "popitem"
    /\ Len(last.pre) = 2
    /\ Axis_get(data) = <<last.pre[2].k>>

\* C16: after every method that changes a BaseContainer in place, its
\* index property is the sequence of the keys of the container.
C16_CachedIndex ==
    (cls.klass = "BaseContainer" /\ last.op \in InplaceMethods)
        => index = dict_keys(data)

\* the labels that the last call assigned to the index view
NewLabels == last.key.items

\* C17: an assignment to the index view that raises nothing leaves as many
\* entries as there were, the i-th key being the i-th new label and the
\* i-th value the value that was at position i.
C17_Rename ==
    (last.op = "rename" /\ last.out.err = "")
        => /\ Len(data) = Len(last.pre)
            /\ dict_keys(data) = NewLabels
            /\ dict_values(data) = dict_values(last.pre)

\* C18: an assignment to the index view of labels that differ in number
\* of the keys, or, for an IndexContainer, that repeat a label, is a
\* ValueError and leaves the container as it was.
C18_RenamePreconditions ==
    (last.op = "rename"
     /\ \/ Len(NewLabels) # Len(last.pre)
        \/ cls.klass = "IndexContainer" /\ ~NoDup(NewLabels))
        => last.out.err = "ValueError" /\ Unchanged

\* C19: an assignment to the index view that fails while the container is
\* filled again with the renamed pairs raises the error and leaves the
\* keys, their order and the values as they were before it.
C19_RenameRollback ==
    (last.op = "rename" /\ last.out.at = "apply")
        => last.out.err # "" /\ Unchanged

\* the callback of a subclass rejects the second label after the first
\* one, which is new to the container, was stored
C19_Witness ==
    /\ last.op = "rename"
    /\ last.out.at = "apply"
    /\ last.out.err = "TypeError"
    /\ Len(last.pre) = 2
    /\ NewLabels[1].ty = "str"
    /\ NewLabels[1] # last.pre[1].k
    /\ NewLabels[2].ty # "str"
    /\ Unchanged

\* C20: del c[k] for a key k of the container takes exactly that entry
\* away and leaves the other entries, their values and their order as they
\* were; for another key it raises a KeyError and leaves the container as
\* it was.
C20_Delete ==
    last.op = "delitem"
        => LET k == last.key.key
           IN IF dict_contains(last.pre, k)
              THEN /\ last.out.err = ""
                   /\ data = SelectSeq(last.pre, LAMBDA it : it.k # k)
                   /\ Len(data) = Len(last.pre) - 1
              ELSE last.out.err = "KeyError" /\ Unchanged

\* the first of the two keys of a container is deleted
C20_Witness ==
    /\ last.op = "delitem"
    /\ Len(last.pre) = 2
    /\ last.key.key = last.pre[1].k
    /\ data = <<last.pre[2]>>

\* a key that the container does not have is deleted
C20_WitnessAbsent ==
    /\ last.op = "delitem"
    /\ Len(last.pre) = 1
    /\ last.out.err = "KeyError"

\* C21: a compound read leaves the keys, the order and the values of c as
\* they were and returns a container of its own: a key added to, replaced
\* in or deleted from the returned container changes the returned
\* container only, and one added to, replaced in or deleted from c
\* afterwards changes c only.
C21_IndependentCopy ==
    /\ CompoundCall("getitem") => Unchanged
    /\ last.op \in {"returned_setitem", "returned_delitem"}
          => /\ Unchanged
             /\ last.out.ret = last.out.data
    /\ last.op \in {"after_setitem", "after_delitem"}
          => /\ data = last.out.data
             /\ last.out.ret = last.prev.ret

\* the returned container holds all the keys of c; one of them is deleted
\* from it and c keeps it
C21_Witness ==
    /\ last.op = "returned_delitem"
    /\ last.out.err = ""
    /\ dict_keys(last.prev.ret) = dict_keys(last.pre)
    /\ Len(last.out.ret) < Len(data)

\* a value of c is replaced after the read and the returned container
\* keeps the value that was read
C21_WitnessAfter ==
    /\ last.op = "after_setitem"
    /\ last.out.err = ""
    /\ Len(last.prev.ret) = 2
    /\ dict_keys(data) = dict_keys(last.pre)
    /\ data # last.pre
    /\ \E i \in 1..2 : /\ last.out.ret[i].k = last.key.key
                        /\ last.out.ret[i].v # last.value.obj

\* the call of the set algebra of an index that has just been made
IndexCall(op) == cls = SimpleIndex /\ last.op = op

C22_WitnessOrder ==
    /\ IndexCall("union")
    /\ last.pre = <<StrA, IntTwo>>
    /\ last.value = IterVal(<<IntTwo, StrA>>)
    /\ last.out.ret = <<StrA, IntTwo>>

\* C23: the union of the index [1, 1, 2] with [1, 2, 2] is [1, 1, 2, 2].
C23_UnionExample ==
    (/\ IndexCall("union")
     /\ last.pre = <<IntOne, IntOne, IntTwo>>
     /\ last.value.items = <<IntOne, IntTwo, IntTwo>>)
        => /\ last.out.err = ""
           /\ last.out.ret = <<IntOne, IntOne, IntTwo, IntTwo>>

\* u is the duplicate-free sequence of the elements of s that are in the
\* set S, in the order of their first occurrence in s
UniqueOf(u, s, S) ==
    /\ FirstOccurrenceOrder(u, s)
    /\ Range(u) = Range(s) \cap S

\* C24: a.difference(b) is the duplicate-free sequence of the elements of a
\* that do not occur in b, in the order of their first occurrence in a, for
\* every iterable b; a.unique().difference(b) is the same index.
C24_Difference ==
    /\ IndexCall("difference")
          => /\ last.out.err = ""
             /\ UniqueOf(last.out.ret, last.pre,
                         Range(last.pre) \ Range(last.value.items))
    /\ IndexCall("unique_difference")
          => /\ last.out.err = ""
             /\ UniqueOf(last.out.ret, last.pre,
                         Range(last.pre) \ Range(last.value.items))

\* C25: a.intersection(b) is the duplicate-free sequence of the elements of
\* a that also occur in b, in the order of their first occurrence in a, for
\* every iterable b.
C25_Intersection ==
    IndexCall("intersection")
        => /\ last.out.err = ""
           /\ UniqueOf(last.out.ret, last.pre, Range(last.value.items))

\* C26: a.symmetric_difference(b) is the duplicate-free sequence of the
\* elements that occur in one of a and b and not in both, those of a first
\* and then those of b, each in the order of its first occurrence, for
\* every iterable b of labels.
C26_SymmetricDifference ==
    (/\ IndexCall("symmetric_difference")
     /\ \A i \in 1..Len(last.value.items) : is_hashable(last.value.items[i]))
        => LET a == last.pre
               b == last.value.items
           IN /\ last.out.err = ""
              /\ UniqueOf(last.out.ret, a \o b,
                          (Range(a) \cup Range(b)) \ (Range(a) \cap Range(b)))

\* the four methods that return a changed copy of the index
CopyingMethods == {"append", "insert", "extend", "clear"}

\* append, insert, extend and clear return a new index with the requested
\* elements, and the receiver keeps its own
C27_ReturnsNew ==
    (cls = SimpleIndex /\ last.op \in CopyingMethods)
        => /\ Unchanged
           /\ last.out.err = ""
                 => /\ last.out.retobj = "new"
                    /\ last.op = "append"
                          => last.out.ret = Append(last.pre, last.key.key)
                    /\ last.op = "insert"
                          => /\ Len(last.out.ret) = Len(last.pre) + 1
                             /\ \E at \in 1..Len(last.out.ret) :
                                   /\ last.out.ret[at] = last.key.key
                                   /\ last.pre =
                                        SubSeq(last.out.ret, 1, at - 1)
                                        \o SubSeq(last.out.ret, at + 1,
                                                  Len(last.out.ret))
                    /\ last.op = "extend"
                          => last.out.ret = last.pre \o last.value.items
                    /\ last.op = "clear" => last.out.ret = <<>>

\* an assignment to a position and a deletion of a position raise a
\* TypeError, and the receiver keeps its elements
C27_RejectsItems ==
    (cls = SimpleIndex /\ last.op \in {"setat", "delat"})
        => last.out.err = "TypeError" /\ Unchanged

\* C27: append, insert, extend and clear return a new index and leave the
\* receiver as it was, an assignment to or a deletion of a position raises
\* a TypeError and leaves the receiver as it was, and so no call on an
\* index changes the elements of that index.
C27_Immutable ==
    /\ C27_ReturnsNew
    /\ C27_RejectsItems
    /\ (cls = SimpleIndex /\ last.op \notin {"init", "idle"}) => Unchanged

\* isinstance(obj, t) for the one class that types declares; no constraint
\* when types declares nothing
InstanceOfDeclared(obj, types) ==
    types.is_type => IsInstance(obj, types.ts)

\* C28: in a typed container whose key (value) constraint is one class, a
\* write of one key is accepted exactly when the key (the value) is an
\* instance of that class, and raises a TypeError otherwise.
C28_SingleType ==
    (cls \in SingleTypeClasses /\ last.op = "setitem")
        => IF /\ InstanceOfDeclared(last.key.key, cls.key_types)
              /\ InstanceOfDeclared(last.value.obj, cls.value_types)
           THEN /\ last.out.err = ""
                /\ dict_contains(data, last.key.key)
                /\ dict_get(data, last.key.key) = last.value.obj
           ELSE last.out.err = "TypeError" /\ Unchanged

\* C29: a compound write of a container with a per-item callback
\* (_BaseContainer) that raises at one of its pairs, in the callback or in
\* the test that the key is hashable, leaves the container as it was before
\* the call, with none of the earlier pairs applied.
C29_CallbackAtomic ==
    (/\ cls.klass = "IndexContainer"
     /\ CompoundCall("setitem")
     /\ last.out.err # "")
        => Unchanged

\* the last call is a read or a write with the selector []
EmptyListCall ==
    /\ cls \in Classes
    /\ last.op \in {"getitem", "setitem"}
    /\ last.key = ListSel(<<>>, "")

\* C30: the selector [] is taken as a boolean mask.  On a container without
\* keys a read or a write with it selects no keys; on a container with keys
\* it raises the ValueError of a mask of the wrong length, which names 0 and
\* the number of keys, and the container stays as it was.  A slice without
\* positions and a mask of the right length that is all false select no
\* keys.
C30_EmptyList ==
    /\ EmptyListCall
          => IF last.pre = <<>>
             THEN /\ last.out.at # "expand"
                  /\ last.out.expanded = <<>>
                  /\ Unchanged
                  /\ last.op = "getitem"
                        => last.out.err = "" /\ last.out.ret = <<>>
             ELSE /\ last.out.err = "ValueError"
                  /\ last.out.at = "expand"
                  /\ last.out.lens = <<0, Len(last.pre)>>
                  /\ Unchanged
    /\ (/\ cls \in Classes
        /\ last.op = "getitem"
        /\ \/ last.key = SliceSel(<<1>>, <<1>>, <<>>)
           \/ /\ last.key.kind = "list"
              /\ last.key.dtype = ""
              /\ Len(last.key.items) = Len(last.pre)
              /\ \A i \in 1..Len(last.key.items) : last.key.items[i] = BFalse)
          => /\ last.out.err = ""
             /\ last.out.expanded = <<>>
             /\ last.out.ret = <<>>

\* c[[]] on a container with two keys raises the ValueError
C30_Witness ==
    /\ EmptyListCall
    /\ last.op = "getitem"
    /\ Len(last.pre) = 2
    /\ last.out.err = "ValueError"
    /\ last.out.lens = <<0, 2>>

\* c[[]] = [] on a container without keys is made and writes nothing
C30_WitnessEmpty ==
    /\ EmptyListCall
    /\ last.op = "setitem"
    /\ last.pre = <<>>
    /\ last.value = ListVal(<<>>)
    /\ last.out.err = ""

\* c[[False, False]] on a container with two keys returns an empty container
C30_WitnessAllFalse ==
    /\ cls \in Classes
    /\ last.op = "getitem"
    /\ last.key = ListSel(<<BFalse, BFalse>>, "")
    /\ Len(last.pre) = 2
    /\ last.out.err = ""
    /\ last.out.ret = <<>>

====
